---- MODULE Spec2Model ----
(***************************************************************************)
(* Model of repo_metadata_cli: the code-path classifier (allowed_files.py, *)
(* settings.py), the diff added-line extractor and the resumable           *)
(* per-repository pipeline (analyzer.py, utils.py).                        *)
(*                                                                         *)
(* Text is modelled as a sequence of one-character strings, so that the    *)
(* prefix tests, strip(), lower() and the pathlib name/suffix parsing of   *)
(* the source are computed and not assumed.                                *)
(***************************************************************************)
EXTENDS Integers, Sequences, FiniteSets, TLC

(***************************************************************************)
(* Bounds of the model.                                                    *)
(***************************************************************************)
MaxQueries == 2

\* longest diff, in lines, built from the core line forms
MaxDiffLines == 4

\* longest tail, in lines of any form, put after an accepted file header
MaxTailLines == 2

\* most bundle files under the dataset directory
MaxBundles == 2

\* most pipeline runs in one behaviour
MaxRuns == 2
MaxFailures == 1
MaxKeptFiles == 2
MaxLoadFailures == 1
MaxDupFiles == 2
MaxCode == 3
MaxCommits == 3

(***************************************************************************)
(* Text literals.                                                          *)
(***************************************************************************)
S_empty == <<>>
S_dot == <<".">>
S_slash == <<"/">>
S_py_bare == <<"p", "y">>
S_dotPY == <<".", "P", "Y">>
S_dotpy == <<".", "p", "y">>
S_dotjs == <<".", "j", "s">>
S_PY_bare == <<"P", "Y">>
S_dotgz == <<".", "g", "z">>
S_dotpng == <<".", "p", "n", "g">>
S_blank == <<" ">>
S_Makefile == <<"M", "a", "k", "e", "f", "i", "l", "e">>
S_Makefile_padded == <<" ", "M", "a", "k", "e", "f", "i", "l", "e", " ">>
S_Dockerfile == <<"D", "o", "c", "k", "e", "r", "f", "i", "l", "e">>
S_docker_compose_yml == <<"d", "o", "c", "k", "e", "r", "-", "c", "o", "m", "p", "o", "s", "e", ".", "y", "m", "l">>
S_CMakeLists_txt == <<"C", "M", "a", "k", "e", "L", "i", "s", "t", "s", ".", "t", "x", "t">>
S_src_dir == <<"s", "r", "c", "/">>
S_main == <<"m", "a", "i", "n">>
S_dotenv == <<".", "e", "n", "v">>
S_a_tar == <<"a", ".", "t", "a", "r">>
S_u == <<"u">>
S_v == <<"v">>
S_newline == <<"\n">>
P_diff_git == <<"d", "i", "f", "f", " ", "-", "-", "g", "i", "t", " ">>
P_binary_files == <<"B", "i", "n", "a", "r", "y", " ", "f", "i", "l", "e", "s", " ">>
P_differ == <<" ", "d", "i", "f", "f", "e", "r">>
P_plus3_space == <<"+", "+", "+", " ">>
P_plus3 == <<"+", "+", "+">>
P_plus == <<"+">>
P_dev_null == <<"/", "d", "e", "v", "/", "n", "u", "l", "l">>
P_b_slash == <<"b", "/">>
L_diff_git == <<"d", "i", "f", "f", " ", "-", "-", "g", "i", "t", " ", "a", " ", "b">>
L_binary == <<"B", "i", "n", "a", "r", "y", " ", "f", "i", "l", "e", "s", " ", "a", " ", "a", "n", "d", " ", "b", " ", "d", "i", "f", "f", "e", "r">>
L_header_py == <<"+", "+", "+", " ", "b", "/", "x", ".", "p", "y">>
L_header_png == <<"+", "+", "+", " ", "b", "/", "i", ".", "p", "n", "g">>
L_header_dev_null == <<"+", "+", "+", " ", "/", "d", "e", "v", "/", "n", "u", "l", "l">>
L_add_u == <<"+", "u">>
L_add_v == <<"+", "v">>
L_context == <<" ", "c">>
L_header_makefile == <<"+", "+", "+", " ", "M", "a", "k", "e", "f", "i", "l", "e", " ">>
L_add_plus_y == <<"+", "+", "y">>
L_three_plus == <<"+", "+", "+">>
L_add_formfeed == <<"+", "p", "\f", "q">>
L_binary_no_differ == <<"B", "i", "n", "a", "r", "y", " ", "f", "i", "l", "e", "s", " ", "a">>
L_old_py == <<"-", "-", "-", " ", "a", "/", "x", ".", "p", "y">>
L_old_png == <<"-", "-", "-", " ", "a", "/", "o", ".", "p", "n", "g">>
L_hunk == <<"@", "@", " ", "-", "0", ",", "0", " ", "+", "1", ",", "2", " ", "@", "@">>
L_diff_git_png == <<"d", "i", "f", "f", " ", "-", "-", "g", "i", "t", " ", "a", "/", "i", ".", "p", "n", "g", " ", "b", "/", "i", ".", "p", "n", "g">>
L_diff_git_py == <<"d", "i", "f", "f", " ", "-", "-", "g", "i", "t", " ", "a", "/", "x", ".", "p", "y", " ", "b", "/", "x", ".", "p", "y">>
L_binary_png == <<"B", "i", "n", "a", "r", "y", " ", "f", "i", "l", "e", "s", " ", "a", "/", "i", ".", "p", "n", "g", " ", "a", "n", "d", " ", "b", "/", "i", ".", "p", "n", "g", " ", "d", "i", "f", "f", "e", "r">>
B_p_a == <<"p", "/", "a", ".", "b", "u", "n", "d", "l", "e">>
B_p_null == <<"p", "/", "n", "u", "l", "l", ".", "b", "u", "n", "d", "l", "e">>
B_q_a == <<"q", "/", "a", ".", "b", "u", "n", "d", "l", "e">>
S_repo_name == <<"r", "e", "p", "o", "_", "n", "a", "m", "e">>
\* the texts of the files compute_duplication_ratio reads
D_x_y == <<"x", "\n", "y", "\n">>
D_x_padded_twice == <<" ", " ", "x", " ", " ", "\n", "\n", "\t", "x", "\n">>
D_blank_only == <<" ", " ", " ", "\n", "\n">>
D_z_x == <<"z", "\n", "x">>
D_ten_lines == <<"0", "\n", "1", "\n", "2", "\n", "3", "\n", "4", "\n", "5", "\n", "6", "\n", "7", "\n", "8", "\n", "9", "\n">>
S_x == <<"x">>
S_z == <<"z">>
S_nan == <<"n", "a", "n">>
S_a == <<"a">>
S_null == <<"n", "u", "l", "l">>

(***************************************************************************)
(* Python str and pathlib operations used by the source.                   *)
(***************************************************************************)
UpperLetters == <<"A", "B", "C", "D", "E", "F", "G", "H", "I", "J", "K", "L", "M",
                  "N", "O", "P", "Q", "R", "S", "T", "U", "V", "W", "X", "Y", "Z">>

LowerLetters == <<"a", "b", "c", "d", "e", "f", "g", "h", "i", "j", "k", "l", "m",
                  "n", "o", "p", "q", "r", "s", "t", "u", "v", "w", "x", "y", "z">>

Whitespace == {" ", "\t", "\n", "\r", "\f"}

\* str.lower() on one character
LowerChar(c) ==
    IF \E i \in DOMAIN UpperLetters : UpperLetters[i] = c
    THEN LowerLetters[CHOOSE i \in DOMAIN UpperLetters : UpperLetters[i] = c]
    ELSE c

\* str.lower()
Lower(s) == [i \in DOMAIN s |-> LowerChar(s[i])]

\* str.startswith(p)
StartsWith(s, p) == Len(s) >= Len(p) /\ SubSeq(s, 1, Len(p)) = p

\* sub in s
Contains(s, sub) ==
    \E i \in 1..(Len(s) - Len(sub) + 1) : SubSeq(s, i, i + Len(sub) - 1) = sub

\* s[n:]
DropFirst(s, n) == SubSeq(s, n + 1, Len(s))

\* str.strip()
Strip(s) ==
    LET keep == {i \in DOMAIN s : s[i] \notin Whitespace}
    IN  IF keep = {} THEN <<>>
        ELSE LET lo == CHOOSE i \in keep : \A j \in keep : i <= j
                 hi == CHOOSE i \in keep : \A j \in keep : j <= i
             IN  SubSeq(s, lo, hi)

\* 1-based str.rfind(c); 0 when c does not occur
RFind(s, c) ==
    LET hits == {i \in DOMAIN s : s[i] = c}
    IN  IF hits = {} THEN 0 ELSE CHOOSE i \in hits : \A j \in hits : j <= i

\* the characters str.splitlines() breaks a line at ("\r\n" counts once)
LineBoundaries == {"\n", "\r", "\f"}

RECURSIVE SplitLinesFrom(_, _)
\* str.splitlines(), for the text from position i on
SplitLinesFrom(text, i) ==
    IF i > Len(text) THEN <<>>
    ELSE LET ends == {j \in i..Len(text) : text[j] \in LineBoundaries}
         IN  IF ends = {} THEN <<SubSeq(text, i, Len(text))>>
             ELSE LET e == CHOOSE j \in ends : \A k \in ends : j <= k
                      skip == IF text[e] = "\r" /\ e < Len(text) /\ text[e + 1] = "\n"
                              THEN 2 ELSE 1
                  IN  <<SubSeq(text, i, e - 1)>> \o SplitLinesFrom(text, e + skip)

\* str.splitlines()
SplitLines(text) == SplitLinesFrom(text, 1)

\* pathlib.PurePath.name: the last component of the path
PathName(p) == DropFirst(p, RFind(p, "/"))

\* pathlib.PurePath.suffix: name[i:] with i = name.rfind('.'), when 0 < i < len(name) - 1
PathSuffix(p) ==
    LET name == PathName(p)
        i == RFind(name, ".")
    IN  IF 1 < i /\ i < Len(name) THEN SubSeq(name, i, Len(name)) ELSE <<>>

\* pathlib.PurePath.stem: the name without its suffix
PathStem(p) ==
    LET name == PathName(p)
    IN  SubSeq(name, 1, Len(name) - Len(PathSuffix(p)))

(***************************************************************************)
(* Configuration (the parsed TOML data) and load_app_settings.             *)
(***************************************************************************)
\* An optional TOML list: absent, or a list of strings.
Absent == [present |-> FALSE, items |-> {}]

ListOf(S) == [present |-> TRUE, items |-> S]

\* settings.py:126
FallbackFilenames == {S_Makefile, S_Dockerfile, S_docker_compose_yml, S_CMakeLists_txt}

PythonFuncNodes == <<"python", {"function_definition"}>>

PythonNoFuncNodes == <<"python", {}>>

\* The configurations the model explores: [files] and [tree_sitter] of the TOML.
\* A dict is a set of <<key, value>> pairs.
Configs ==
    [ allowed_extensions : {Absent, ListOf({}), ListOf({S_py_bare}), ListOf({S_dotPY, S_blank}),
                            ListOf({S_dotpy, S_dotgz}), ListOf({S_dotPY, S_PY_bare, S_dotpy})},
      allowed_filenames : {Absent, ListOf({}), ListOf({S_Makefile_padded}), ListOf({S_main})},
      extension_language_map : {Absent, ListOf({}), ListOf({<<S_dotpy, "python">>}),
                                ListOf({<<S_PY_bare, "python">>, <<S_dotjs, "javascript">>})},
      lang_func_node_types : {Absent, ListOf({PythonFuncNodes}), ListOf({PythonNoFuncNodes})} ]

\* settings.py:116: ext if ext.startswith(".") else "." + ext
DotPrefixed(ext) == IF StartsWith(ext, S_dot) THEN ext ELSE S_dot \o ext

\* the normalization adding the dot but keeping the case
LowerDotPrefixed_keeping_case(ext) == IF StartsWith(ext, S_dot) THEN ext ELSE S_dot \o ext

\* allowed_files.py:33, allowed_files.py:40, settings.py:152:
\* ext.lower() if ext.startswith(".") else f".{ext.lower()}"
LowerDotPrefixed(ext) == IF StartsWith(ext, S_dot) THEN Lower(ext) ELSE S_dot \o Lower(ext)

\* settings.py _parse_str_dict: keys stripped, empty keys dropped
parse_str_dict(raw) ==
    IF ~raw.present THEN Absent
    ELSE ListOf({<<Strip(kv[1]), kv[2]>> : kv \in {x \in raw.items : Strip(x[1]) # <<>>}})

\* settings.py _parse_str_set_dict
parse_str_set_dict(raw) == IF ~raw.present THEN Absent ELSE ListOf(raw.items)

\* settings.py load_app_settings: the settings, or raised = TRUE for its ValueError
load_app_settings(c) ==
    LET allowed_ext ==
            IF c.allowed_extensions.present
            THEN ListOf({DotPrefixed(e) : e \in {x \in c.allowed_extensions.items : Strip(x) # <<>>}})
            ELSE Absent
        allowed_names ==
            IF c.allowed_filenames.present
            THEN ListOf({Strip(n) : n \in {x \in c.allowed_filenames.items : Strip(x) # <<>>}})
            ELSE ListOf(FallbackFilenames)
        ext_map == parse_str_dict(c.extension_language_map)
        func_nodes == parse_str_set_dict(c.lang_func_node_types)
    IN  [ raised |-> (ext_map.items = {}) \/ (func_nodes.items = {}),
          files |-> [allowed_extensions |-> allowed_ext, allowed_filenames |-> allowed_names],
          tree_sitter |->
              [ extension_language_map |-> {<<LowerDotPrefixed(kv[1]), kv[2]>> : kv \in ext_map.items},
                lang_func_node_types |-> func_nodes.items ] ]

(***************************************************************************)
(* AllowedFiles (allowed_files.py).                                        *)
(***************************************************************************)
MissingFilenamesWarning == "allowed_filenames missing in config; falling back to empty set."

\* _compute_default_extensions testing "is not None" where the source tests truthiness
compute_default_extensions_not_none(settings) ==
    IF settings.files.allowed_extensions.present
    THEN [raised |-> FALSE,
          value |-> {LowerDotPrefixed(e) : e \in settings.files.allowed_extensions.items}]
    ELSE IF settings.tree_sitter.extension_language_map # {}
    THEN [raised |-> FALSE,
          value |-> {LowerDotPrefixed(kv[1]) : kv \in settings.tree_sitter.extension_language_map}]
    ELSE [raised |-> TRUE, value |-> {}]

\* AllowedFiles._compute_default_extensions
compute_default_extensions(settings) ==
    IF settings.files.allowed_extensions.items # {}
    THEN [raised |-> FALSE,
          value |-> {LowerDotPrefixed(e) : e \in settings.files.allowed_extensions.items}]
    ELSE IF settings.tree_sitter.extension_language_map # {}
    THEN [raised |-> FALSE,
          value |-> {LowerDotPrefixed(kv[1]) : kv \in settings.tree_sitter.extension_language_map}]
    ELSE [raised |-> TRUE, value |-> {}]

\* AllowedFiles._compute_default_filenames: the set and what it logs
compute_default_filenames(settings) ==
    IF settings.files.allowed_filenames.items # {}
    THEN [value |-> settings.files.allowed_filenames.items, logged |-> {}]
    ELSE [value |-> {}, logged |-> {MissingFilenamesWarning}]

NotLoaded == [loaded |-> FALSE, items |-> {}]

NoInstance ==
    [ status |-> "none", default_code_extensions |-> {}, default_code_filenames |-> {},
      allowed_extensions |-> NotLoaded, allowed_filenames |-> NotLoaded ]

FailedInstance == [NoInstance EXCEPT !.status = "error"]

\* AllowedFiles.__init__: the instance (status "ok") or the raised error (status "error")
AllowedFiles_init(c) ==
    LET settings == load_app_settings(c)
        exts == compute_default_extensions(settings)
    IN  IF settings.raised \/ exts.raised THEN FailedInstance
        ELSE [ status |-> "ok",
               default_code_extensions |-> exts.value,
               default_code_filenames |-> compute_default_filenames(settings).value,
               allowed_extensions |-> NotLoaded,
               allowed_filenames |-> NotLoaded ]

\* what AllowedFiles.__init__ logs
AllowedFiles_init_log(c) ==
    LET settings == load_app_settings(c)
    IN  IF settings.raised \/ compute_default_extensions(settings).raised THEN {}
        ELSE compute_default_filenames(settings).logged

\* AllowedFiles._ensure_loaded
ensure_loaded(self) ==
    [ self EXCEPT
        !.allowed_extensions =
            IF self.allowed_extensions.loaded THEN self.allowed_extensions
            ELSE [loaded |-> TRUE, items |-> self.default_code_extensions],
        !.allowed_filenames =
            IF self.allowed_filenames.loaded THEN self.allowed_filenames
            ELSE [loaded |-> TRUE, items |-> self.default_code_filenames] ]

\* is_code_path comparing the suffix without lower-casing it
is_code_path_case_sensitive(self, path) ==
    LET suffix == PathSuffix(path)
    IN  \/ PathName(path) \in self.allowed_filenames.items
        \/ (suffix # <<>> /\ suffix \in self.allowed_extensions.items)

\* AllowedFiles.is_code_path, on an instance that _ensure_loaded has loaded
is_code_path(self, path) ==
    LET suffix == Lower(PathSuffix(path))
    IN  \/ PathName(path) \in self.allowed_filenames.items
        \/ (suffix # <<>> /\ suffix \in self.allowed_extensions.items)

(***************************************************************************)
(* extract_added_lines (analyzer.py).                                      *)
(***************************************************************************)
\* current_file: Optional[str]
NoFile == [set |-> FALSE, path |-> <<>>]

SomeFile(path) == [set |-> TRUE, path |-> path]

\* the loop body with the test of current_is_binary left out
extract_line_ignoring_binary(st, line, allowed) ==
    IF StartsWith(line, P_diff_git)
    THEN [st EXCEPT !.current_file = NoFile, !.current_is_binary = FALSE]
    ELSE IF StartsWith(line, P_binary_files) /\ Contains(line, P_differ)
    THEN [st EXCEPT !.current_is_binary = TRUE]
    ELSE IF StartsWith(line, P_plus3_space)
    THEN LET path == Strip(DropFirst(line, 4))
         IN  IF path = P_dev_null THEN [st EXCEPT !.current_file = NoFile]
             ELSE LET rel == IF StartsWith(path, P_b_slash) THEN DropFirst(path, 2) ELSE path
                  IN  [st EXCEPT !.current_file =
                          IF is_code_path(allowed, rel) THEN SomeFile(rel) ELSE NoFile]
    ELSE IF StartsWith(line, P_plus) /\ ~StartsWith(line, P_plus3)
    THEN IF st.current_file.set
         THEN [st EXCEPT !.added = Append(@, DropFirst(line, 1))]
         ELSE st
    ELSE st

\* the loop body with a "diff --git" header that resets current_file only
extract_line_binary_not_reset(st, line, allowed) ==
    IF StartsWith(line, P_diff_git)
    THEN [st EXCEPT !.current_file = NoFile]
    ELSE IF StartsWith(line, P_binary_files) /\ Contains(line, P_differ)
    THEN [st EXCEPT !.current_is_binary = TRUE]
    ELSE IF StartsWith(line, P_plus3_space)
    THEN LET path == Strip(DropFirst(line, 4))
         IN  IF path = P_dev_null THEN [st EXCEPT !.current_file = NoFile]
             ELSE LET rel == IF StartsWith(path, P_b_slash) THEN DropFirst(path, 2) ELSE path
                  IN  [st EXCEPT !.current_file =
                          IF is_code_path(allowed, rel) THEN SomeFile(rel) ELSE NoFile]
    ELSE IF StartsWith(line, P_plus) /\ ~StartsWith(line, P_plus3)
    THEN IF st.current_file.set /\ ~st.current_is_binary
         THEN [st EXCEPT !.added = Append(@, DropFirst(line, 1))]
         ELSE st
    ELSE st

\* extract_added_lines: the body of the loop over diff_text.splitlines(), on the
\* state st = [current_file, current_is_binary, added]
extract_line(st, line, allowed) ==
    IF StartsWith(line, P_diff_git)
    THEN [st EXCEPT !.current_file = NoFile, !.current_is_binary = FALSE]
    ELSE IF StartsWith(line, P_binary_files) /\ Contains(line, P_differ)
    THEN [st EXCEPT !.current_is_binary = TRUE]
    ELSE IF StartsWith(line, P_plus3_space)
    THEN LET path == Strip(DropFirst(line, 4))
         IN  IF path = P_dev_null THEN [st EXCEPT !.current_file = NoFile]
             ELSE LET rel == IF StartsWith(path, P_b_slash) THEN DropFirst(path, 2) ELSE path
                  IN  [st EXCEPT !.current_file =
                          IF is_code_path(allowed, rel) THEN SomeFile(rel) ELSE NoFile]
    ELSE IF StartsWith(line, P_plus) /\ ~StartsWith(line, P_plus3)
    THEN IF st.current_file.set /\ ~st.current_is_binary
         THEN [st EXCEPT !.added = Append(@, DropFirst(line, 1))]
         ELSE st
    ELSE st

\* whether the loop body calls is_code_path on this line
CallsClassifier(line) ==
    /\ ~StartsWith(line, P_diff_git)
    /\ ~(StartsWith(line, P_binary_files) /\ Contains(line, P_differ))
    /\ StartsWith(line, P_plus3_space)
    /\ Strip(DropFirst(line, 4)) # P_dev_null

(***************************************************************************)
(* The output store: a CSV file written by DataFrame.to_csv and read back  *)
(* by pandas.read_csv.                                                     *)
(***************************************************************************)
Range(f) == {f[i] : i \in DOMAIN f}

\* the values pandas.read_csv reads as NaN by default
NaValues ==
    { <<>>,
      <<"#", "N", "/", "A">>,
      <<"#", "N", "/", "A", " ", "N", "/", "A">>,
      <<"#", "N", "A">>,
      <<"-", "1", ".", "#", "I", "N", "D">>,
      <<"-", "1", ".", "#", "Q", "N", "A", "N">>,
      <<"-", "N", "a", "N">>,
      <<"-", "n", "a", "n">>,
      <<"1", ".", "#", "I", "N", "D">>,
      <<"1", ".", "#", "Q", "N", "A", "N">>,
      <<"<", "N", "A", ">">>,
      <<"N", "/", "A">>,
      <<"N", "A">>,
      <<"N", "U", "L", "L">>,
      <<"N", "a", "N">>,
      <<"N", "o", "n", "e">>,
      <<"n", "/", "a">>,
      <<"n", "a", "n">>,
      <<"n", "u", "l", "l">> }

\* existing_df["repo_name"].astype(str), for a column whose cells are not all
\* numbers (the repository names of the model are not): read_csv turns each of
\* the NaValues into NaN, which astype(str) prints as "nan", and keeps other text
column_astype_str(cells) == {IF c \in NaValues THEN S_nan ELSE c : c \in cells}

\* analyzer.py:108-126: the keys of the metadata row, in order
MetadataColumns ==
    << "repo_name", "languages", "stack", "license_type", "created_at", "commit_count",
       "branch_count", "contributors_count", "repo_git_history_mb", "repo_bundle_mb",
       "repo_worktree_mb", "files", "loc", "avg_func_length", "docstring_ratio",
       "duplication_ratio", "documentation_cnt" >>

\* analyzer.py:203-207: the keys of the tokens row, in order
TokensColumns ==
    <<"repo_name", "deepseek_token_count_all_commits", "deepseek_token_count_last_commit">>

\* the header of a CSV file that some other program wrote
ForeignColumns == <<"name", "value">>

NoRow == [repo_name |-> <<>>]

\* the lines of a CSV file: a header line, a data line, or a line read_csv cannot parse
HeaderLine(names) == [kind |-> "header", names |-> names, row |-> NoRow]

RowLine(row) == [kind |-> "row", names |-> <<>>, row |-> row]

GarbageLine == [kind |-> "garbage", names |-> <<>>, row |-> NoRow]

AbsentFile == [exists |-> FALSE, lines |-> <<>>]

FileOf(ls) == [exists |-> TRUE, lines |-> ls]

\* the repo_name values of the data lines of a file, as written
RowNames(file) ==
    [i \in 1..Len(SelectSeq(file.lines, LAMBDA l : l.kind = "row")) |->
        SelectSeq(file.lines, LAMBDA l : l.kind = "row")[i].row.repo_name]

\* read_csv takes the first line for the header, whatever it holds
HasRepoNameColumn(first) ==
    IF first.kind = "header" THEN "repo_name" \in Range(first.names)
    ELSE first.row.repo_name = S_repo_name

\* RepoAnalyzer._processed_repos
processed_repos(file) ==
    IF ~file.exists THEN {}
    ELSE IF file.lines = <<>> \/ \E i \in DOMAIN file.lines : file.lines[i].kind = "garbage"
    THEN {}
    ELSE IF Len(file.lines) = 1 \/ ~HasRepoNameColumn(file.lines[1]) THEN {}
    ELSE column_astype_str({file.lines[i].row.repo_name : i \in 2..Len(file.lines)})

\* analyzer.py:293-299: row_df.to_csv(csv_path, mode, header, index=False)
to_csv(file, row, columns) ==
    IF file.exists THEN FileOf(Append(file.lines, RowLine(row)))
    ELSE FileOf(<<HeaderLine(columns), RowLine(row)>>)

(***************************************************************************)
(* The per-repository analyses (analyzer.py, metrics.py, utils.py,         *)
(* token_stats.py).  env is what the external collaborators do during one  *)
(* call: the stat of the bundle file, git clone, the git, du and cloc      *)
(* commands run through run_cmd, and the loading of the tokenizer.         *)
(***************************************************************************)
\* what a successfully cloned repository measures to (units already converted)
RepoFacts ==
    [ created_at |-> "2020-01-01", commit_count |-> 3, branch_count |-> 2,
      contributors_count |-> 1, repo_git_history_mb |-> 4, repo_bundle_mb |-> 2,
      repo_worktree_mb |-> 5, license_type |-> "MIT", documentation_cnt |-> 6,
      files |-> 7, loc |-> 8, docstring_ratio |-> 1, languages |-> "{\"Python\": 1.0}",
      stack |-> "Python (100%)", avg_func_length |-> 9, duplication_ratio |-> 1,
      tokens_all_commits |-> 11, tokens_last_commit |-> 10 ]

AllOk ==
    [stat |-> "ok", clone |-> "ok", git |-> "ok", du |-> "ok", cloc |-> "ok", tokenizer |-> "ok"]

\* the collaborator outcomes of one analysis, for each pipeline: all well, or one
\* thing going wrong ("nonzero": the command exits non-zero; "noexe": its
\* executable is missing; "garbage": it prints output that does not parse).
\* Without a tokenizer the tokens analysis calls no collaborator.
Envs(desc, provider) ==
    IF desc = "Metadata"
    THEN { AllOk,
           [AllOk EXCEPT !.clone = "fail"],
           [AllOk EXCEPT !.clone = "noexe"],
           [AllOk EXCEPT !.cloc = "nonzero"],
           [AllOk EXCEPT !.cloc = "garbage"],
           [AllOk EXCEPT !.cloc = "noexe"] }
    ELSE IF provider = "none" THEN {AllOk}
    ELSE { AllOk,
           [AllOk EXCEPT !.clone = "fail"],
           [AllOk EXCEPT !.clone = "noexe"],
           [AllOk EXCEPT !.git = "nonzero"],
           [AllOk EXCEPT !.tokenizer = "load_fail"] }

\* analyzer.py:108-126
DefaultMetadataRow(name) ==
    [ repo_name |-> name, languages |-> "", stack |-> "", license_type |-> "UNKNOWN",
      created_at |-> "", commit_count |-> 0, branch_count |-> 0, contributors_count |-> 0,
      repo_git_history_mb |-> 0, repo_bundle_mb |-> 0, repo_worktree_mb |-> 0, files |-> 0,
      loc |-> 0, avg_func_length |-> 0, docstring_ratio |-> 0, duplication_ratio |-> 0,
      documentation_cnt |-> 0 ]

\* analyzer.py:203-207
DefaultTokensRow(name) ==
    [ repo_name |-> name, deepseek_token_count_all_commits |-> 0,
      deepseek_token_count_last_commit |-> 0 ]

Returned(row) == [raised |-> FALSE, row |-> row]

Raised == [raised |-> TRUE, row |-> NoRow]

\* utils.run_cmd: "" when the command exits non-zero (CalledProcessError is caught);
\* a missing executable raises FileNotFoundError, which is not caught
run_cmd_raises(outcome) == outcome = "noexe"

\* RepoAnalyzer.analyze_repo_metadata: the row it returns, or raised = TRUE when
\* an exception leaves it
analyze_repo_metadata(bundle_path, env) ==
    LET data == [DefaultMetadataRow(PathStem(bundle_path)) EXCEPT
                    !.repo_bundle_mb = IF env.stat = "ok" THEN RepoFacts.repo_bundle_mb ELSE 0]
        git_ok == env.git = "ok"
        du_ok == env.du = "ok"
        cloc_ok == env.cloc = "ok"
    IN  IF env.clone = "noexe" THEN Raised
        ELSE IF env.clone = "fail" THEN Returned(data)
        ELSE IF run_cmd_raises(env.git) \/ run_cmd_raises(env.du) \/ run_cmd_raises(env.cloc)
        THEN Raised
        ELSE Returned(
            [ data EXCEPT
                !.created_at = IF git_ok THEN RepoFacts.created_at ELSE "",
                !.commit_count = IF git_ok THEN RepoFacts.commit_count ELSE 0,
                !.branch_count = IF git_ok THEN RepoFacts.branch_count ELSE 0,
                !.contributors_count = IF git_ok THEN RepoFacts.contributors_count ELSE 0,
                !.repo_git_history_mb = IF du_ok THEN RepoFacts.repo_git_history_mb ELSE 0,
                !.repo_worktree_mb = IF du_ok THEN RepoFacts.repo_worktree_mb ELSE 0,
                !.license_type = RepoFacts.license_type,
                !.documentation_cnt = RepoFacts.documentation_cnt,
                !.files = IF cloc_ok THEN RepoFacts.files ELSE 0,
                !.loc = IF cloc_ok THEN RepoFacts.loc ELSE 0,
                !.docstring_ratio = IF cloc_ok THEN RepoFacts.docstring_ratio ELSE 0,
                !.languages = IF cloc_ok THEN RepoFacts.languages ELSE "",
                !.stack = IF cloc_ok THEN RepoFacts.stack ELSE "",
                !.avg_func_length = RepoFacts.avg_func_length,
                !.duplication_ratio = RepoFacts.duplication_ratio ])

\* RepoAnalyzer.analyze_repo_tokens; provider is "none" when tokenizer_provider is None
analyze_repo_tokens(bundle_path, env, provider) ==
    LET data == DefaultTokensRow(PathStem(bundle_path))
        counting == env.tokenizer = "ok"
    IN  IF provider = "none" THEN Returned(data)
        ELSE IF env.clone = "noexe" THEN Raised
        ELSE IF env.clone = "fail" THEN Returned(data)
        ELSE IF run_cmd_raises(env.git) THEN Raised
        ELSE Returned(
            [ data EXCEPT
                !.deepseek_token_count_all_commits =
                    IF counting /\ env.git = "ok" THEN RepoFacts.tokens_all_commits ELSE 0,
                !.deepseek_token_count_last_commit =
                    IF counting THEN RepoFacts.tokens_last_commit ELSE 0 ])

Passes == {"Metadata", "Tokens"}

\* the analyze_fn and the columns of its rows, for each pipeline
analyze_fn(desc, bundle_path, env, provider) ==
    IF desc = "Metadata" THEN analyze_repo_metadata(bundle_path, env)
    ELSE analyze_repo_tokens(bundle_path, env, provider)

\* both pipelines reading and writing the file of the metadata pipeline
csv_path_shared(desc) == "Metadata"

\* analyzer.py:304-310: the file each pipeline is given: csv_metadata_path or
\* csv_tokens_path
csv_path(desc) == desc

ColumnsOf(desc) == IF desc = "Metadata" THEN MetadataColumns ELSE TokensColumns

DefaultRowOf(desc, name) ==
    IF desc = "Metadata" THEN DefaultMetadataRow(name) ELSE DefaultTokensRow(name)

(***************************************************************************)
(* State.                                                                  *)
(***************************************************************************)
VARIABLES
    cfg,          \* the TOML configuration the classifier is built from
    alf,          \* the AllowedFiles instance
    log,          \* warnings logged so far
    queries,      \* number of is_code_path calls made
    last_query,   \* the path of the last is_code_path call, by its parts
    last_answer,  \* what that call returned
    diff_text,          \* extract_added_lines: the diff text passed in
    lines,              \* diff_text.splitlines()
    pos,                \* index of the next line the loop handles
    current_file,       \* extract_added_lines: current_file
    current_is_binary,  \* extract_added_lines: current_is_binary
    added,              \* extract_added_lines: added
    added_from,         \* for each element of added, the index of the line it came from
    dpc,                \* extract_added_lines: "off", "start", "loop" or "done"
    bundle_files,       \* _process_bundles: sorted(dataset_dir.rglob("*.bundle"))
    store,              \* the CSV file of each pipeline
    tokenizer_provider, \* "none" when RepoAnalyzer.tokenizer_provider is None
    ppc,                \* _process_bundles: "idle", "loop", "finished", "aborted", "crashed"
    pass,               \* the pipeline that runs: "Metadata" or "Tokens"
    processed,          \* _process_bundles: processed
    idx,                \* index in bundle_files of the bundle the loop is at
    history,            \* one record per run: what it found and appended, how it ended
    clone_failures,     \* <<pipeline, repo_name>> of the rows recorded after a failed clone
    retried,            \* whether a repository recorded after a failed clone was analysed again
    failures,           \* number of analyses in which a collaborator failed
    ts_present,         \* compute_avg_func_length: ts_manager is not None
    ts_config,          \* TreeSitterManager.config: the two maps
    ts_languages,       \* TreeSitterManager._languages: the languages it holds
    ts_parsers,         \* TreeSitterManager._parsers: the languages it holds a parser for
    kept_files,         \* compute_avg_func_length: what iter_code_files yields
    fi,                 \* index in kept_files of the file the loop is at
    stack,              \* compute_avg_func_length: stack, as node numbers of the tree
    total_func_lines,   \* compute_avg_func_length: total_func_lines
    total_funcs,        \* compute_avg_func_length: total_funcs
    avg_result,         \* what compute_avg_func_length returned, as a fraction
    apc,                \* compute_avg_func_length: "off", "start", "files", "walk", "done"
    visited,            \* the <<file index, node number>> popped from the stack so far
    parsed_with,        \* per file handled: the node kinds it was walked with, or NotParsed
    last_call,          \* the last parser_for_suffix call: what it was given and returned
    failed_langs,       \* languages whose grammar or parser failed to load in some call
    load_failures,      \* number of parser_for_suffix calls in which a load failed
    dup_files,          \* compute_duplication_ratio: what iter_code_files yields
    hash_of,            \* hash() of this process, on the stripped lines
    di,                 \* index in dup_files of the file the loop is at
    total_lines,        \* compute_duplication_ratio: total_lines
    uniq,               \* compute_duplication_ratio: uniq
    dup_result,         \* what compute_duplication_ratio returned, as a fraction
    upc,                \* compute_duplication_ratio: "off", "loop" or "done"
    cloc_stats,         \* what get_cloc_stats returned: summary and langs
    distribution,       \* analyze_repo_metadata: distribution, the shares in millionths
    languages_set,      \* whether data["languages"] was assigned
    lpc,                \* "off", "start" or "done"
    commit_hashes,      \* analyze_repo_tokens: commit_hashes, each with what git show gives
    ci,                 \* index in commit_hashes of the commit the loop is at
    texts_all_commits,  \* analyze_repo_tokens: texts_all_commits
    handed_texts,       \* the texts count_tokens_batch was called with
    cpc,                \* the historical token pass: "off", "loop" or "done"
    tree_entries,       \* iter_code_files: what repo_dir.rglob("*") lists
    ti,                 \* index in tree_entries of the entry the loop is at
    yielded,            \* the indices of the entries iter_code_files yielded
    ipc,                \* iter_code_files: "off", "loop" or "done"
    command,            \* the command the CLI was started with: "metadata" or "tokens"
    options,            \* the options of the command line
    settings,           \* what the TOML file configures, read by load_app_settings
    analyzer_kwargs,    \* the keyword arguments _build_analyzer gave to RepoAnalyzer
    pipeline_called,    \* the pipeline method the command called, or "none"
    clipc               \* the command: "off", "start", "built", "returned", "raised"

classifierVars == <<cfg, alf, log, queries, last_query, last_answer>>

diffVars == <<diff_text, lines, pos, current_file, current_is_binary, added, added_from, dpc>>

pipelineVars ==
    <<bundle_files, store, tokenizer_provider, ppc, pass, processed, idx, history,
      clone_failures, retried, failures>>

funcVars ==
    <<ts_present, ts_config, ts_languages, ts_parsers, kept_files, fi, stack, total_func_lines,
      total_funcs, avg_result, apc, visited, parsed_with, last_call, failed_langs,
      load_failures>>

dupVars == <<dup_files, hash_of, di, total_lines, uniq, dup_result, upc>>

langVars == <<cloc_stats, distribution, languages_set, lpc>>

commitVars == <<commit_hashes, ci, texts_all_commits, handed_texts, cpc>>

scanVars == <<tree_entries, ti, yielded, ipc>>

cliVars == <<command, options, settings, analyzer_kwargs, pipeline_called, clipc>>

toolVars == <<scanVars, cliVars>>

metricVars == <<funcVars, dupVars, langVars, commitVars, toolVars>>

vars == <<classifierVars, diffVars, pipelineVars, metricVars>>

NoCall ==
    [ suffix |-> <<>>, returned |-> FALSE, kinds |-> {}, lang |-> "",
      env |-> [get_language |-> TRUE, get_parser |-> TRUE] ]

Zero == [num |-> 0, den |-> 1]

FuncIdle ==
    /\ ts_present = FALSE
    /\ ts_config = [extension_language_map |-> {}, lang_func_node_types |-> {}]
    /\ ts_languages = {}
    /\ ts_parsers = {}
    /\ kept_files = <<>>
    /\ fi = 0
    /\ stack = <<>>
    /\ total_func_lines = 0
    /\ total_funcs = 0
    /\ avg_result = Zero
    /\ apc = "off"
    /\ visited = <<>>
    /\ parsed_with = <<>>
    /\ last_call = NoCall
    /\ failed_langs = {}
    /\ load_failures = 0

DupIdle ==
    /\ dup_files = <<>>
    /\ hash_of = <<>>
    /\ di = 0
    /\ total_lines = 0
    /\ uniq = {}
    /\ dup_result = Zero
    /\ upc = "off"

NoStats == [summary |-> FALSE, langs |-> <<>>]

LangIdle ==
    /\ cloc_stats = NoStats
    /\ distribution = <<>>
    /\ languages_set = FALSE
    /\ lpc = "off"

CommitIdle ==
    /\ commit_hashes = <<>>
    /\ ci = 0
    /\ texts_all_commits = <<>>
    /\ handed_texts = <<>>
    /\ cpc = "off"

ScanIdle ==
    /\ tree_entries = <<>>
    /\ ti = 0
    /\ yielded = <<>>
    /\ ipc = "off"

CliIdle ==
    /\ command = "none"
    /\ options = <<>>
    /\ settings = <<>>
    /\ analyzer_kwargs = <<>>
    /\ pipeline_called = "none"
    /\ clipc = "off"

ToolsIdle == ScanIdle /\ CliIdle

MetricsIdle == FuncIdle /\ DupIdle /\ LangIdle /\ CommitIdle /\ ToolsIdle

PipelineIdle ==
    /\ bundle_files = <<>>
    /\ store = [d \in Passes |-> AbsentFile]
    /\ tokenizer_provider = "none"
    /\ ppc = "idle"
    /\ pass = "Metadata"
    /\ processed = {}
    /\ idx = 0
    /\ history = <<>>
    /\ clone_failures = {}
    /\ retried = FALSE
    /\ failures = 0

DiffIdle ==
    /\ diff_text = <<>>
    /\ lines = <<>>
    /\ pos = 0
    /\ current_file = NoFile
    /\ current_is_binary = FALSE
    /\ added = <<>>
    /\ added_from = <<>>
    /\ dpc = "off"

(***************************************************************************)
(* The classifier: construction and queries.                               *)
(***************************************************************************)
\* A queried path: directory prefix, then a basename made of a non-empty stem
\* and an extension that is empty or a dot followed by dot-free text.
\* (A stem with an inner dot, as in a.tar.gz, only occurs with an extension.)
QueryPaths ==
    { q \in [ dir : {S_empty, S_src_dir},
              stem : {S_main, S_Makefile, S_dotenv, S_a_tar},
              ext : {S_empty, S_dotpy, S_dotPY, S_dotgz, S_dotpng} ] :
        q.ext = <<>> => RFind(q.stem, ".") <= 1 }

NoQuery == [dir |-> S_empty, stem |-> S_empty, ext |-> S_empty]

PathText(q) == q.dir \o q.stem \o q.ext

InitClassifier ==
    /\ cfg \in Configs
    /\ alf = NoInstance
    /\ log = {}
    /\ queries = 0
    /\ last_query = NoQuery
    /\ last_answer = FALSE
    /\ DiffIdle
    /\ PipelineIdle
    /\ MetricsIdle

\* AllowedFiles(config)
Construct ==
    /\ alf.status = "none"
    /\ alf' = AllowedFiles_init(cfg)
    /\ log' = log \cup AllowedFiles_init_log(cfg)
    /\ UNCHANGED <<cfg, queries, last_query, last_answer>>
    /\ UNCHANGED <<diffVars, pipelineVars, metricVars>>

\* allowed_files.is_code_path(path)
Query(q) ==
    /\ alf.status = "ok"
    /\ queries < MaxQueries
    /\ alf' = ensure_loaded(alf)
    /\ last_answer' = is_code_path(ensure_loaded(alf), PathText(q))
    /\ last_query' = q
    /\ queries' = queries + 1
    /\ UNCHANGED <<cfg, log>>
    /\ UNCHANGED <<diffVars, pipelineVars, metricVars>>

NextClassifier ==
    \/ Construct
    \/ \E q \in QueryPaths : Query(q)

SpecClassifier == InitClassifier /\ [][NextClassifier]_vars

(***************************************************************************)
(* Properties of the classifier.                                           *)
(***************************************************************************)
QueriedBasename == last_query.stem \o last_query.ext

MatchesByName == QueriedBasename \in alf.default_code_filenames

MatchesByExtension ==
    last_query.ext # <<>> /\ Lower(last_query.ext) \in alf.default_code_extensions

\* C3: for every path p, is_code_path(p) is true if and only if the basename of
\* p is in allowed_filenames or the lower-cased extension of p is in
\* allowed_extensions; a path with no extension matches only by its basename.
C3_IsCodePathIff ==
    queries > 0 =>
        /\ last_answer <=> (MatchesByName \/ MatchesByExtension)
        /\ last_query.ext = <<>> => (last_answer <=> MatchesByName)

\* a path in a directory, with an upper-case extension, accepted by its extension alone
C3_Witness ==
    /\ queries > 0
    /\ last_answer
    /\ last_query.ext = S_dotPY
    /\ last_query.dir = S_src_dir
    /\ ~MatchesByName

\* C9: when no filename allow-list is configured, is_code_path(p) is true only
\* through the extension rule, for every p, and the missing list is logged.
C9_NoAllowListNeverMatchesByName ==
    (queries > 0 /\ ~cfg.allowed_filenames.present) =>
        /\ last_answer <=> MatchesByExtension
        /\ MissingFilenamesWarning \in log

NoExtensionSource(c) ==
    c.allowed_extensions.items = {} /\ c.extension_language_map.items = {}

\* C10: with neither an extension allow-list nor an extension-to-language map
\* configured, constructing AllowedFiles raises; no instance has an empty
\* allowed_extensions set.
C10_NoExtensionSourceIsFatal ==
    /\ (alf.status # "none" /\ NoExtensionSource(cfg)) => alf.status = "error"
    /\ alf.status = "ok" =>
           /\ alf.default_code_extensions # {}
           /\ alf.allowed_extensions.loaded => alf.allowed_extensions.items # {}

\* construction was attempted without any extension source, and raised
C10_Witness == alf.status = "error" /\ NoExtensionSource(cfg)

SpellingsOfPy == {S_dotPY, S_PY_bare, S_dotpy}

Canonical(ext) == StartsWith(ext, S_dot) /\ Lower(ext) = ext

\* C11: extension normalization yields one canonical form and is idempotent:
\* the configured spellings .PY, PY and .py all give the entry .py, normalizing
\* a normalized extension leaves it unchanged, and every entry of
\* allowed_extensions is lower-case and dot-prefixed.
C11_ExtensionsCanonical ==
    alf.status = "ok" =>
        /\ \A e \in alf.default_code_extensions \cup alf.allowed_extensions.items :
               /\ Canonical(e)
               /\ LowerDotPrefixed(e) = e
               /\ DotPrefixed(e) = e
        /\ (cfg.allowed_extensions.items \cap SpellingsOfPy # {})
               => S_dotpy \in alf.default_code_extensions
        /\ (cfg.allowed_extensions.items # {} /\ cfg.allowed_extensions.items \subseteq SpellingsOfPy)
               => alf.default_code_extensions = {S_dotpy}
        /\ \A x \in SpellingsOfPy : LowerDotPrefixed(DotPrefixed(x)) = S_dotpy

\* the three spellings were configured together, and queried after loading
C11_Witness ==
    /\ alf.status = "ok"
    /\ cfg.allowed_extensions.items = SpellingsOfPy
    /\ alf.allowed_extensions.loaded
    /\ alf.allowed_extensions.items = {S_dotpy}

(***************************************************************************)
(* The diff added-line extractor, one loop iteration per step.             *)
(***************************************************************************)
\* the classifier configuration the extractor runs with
DiffConfig ==
    [ allowed_extensions |-> ListOf({S_dotpy}),
      allowed_filenames |-> Absent,
      extension_language_map |-> ListOf({<<S_dotpy, "python">>}),
      lang_func_node_types |-> ListOf({PythonFuncNodes}) ]

CoreLines ==
    {L_diff_git, L_binary, L_header_py, L_header_png, L_header_dev_null, L_add_u, L_add_v}

AllLines ==
    CoreLines \cup {L_context, L_header_makefile, L_add_plus_y, L_three_plus, L_add_formfeed,
                    L_binary_no_differ}

SeqsUpTo(S, n) == UNION {[1..k -> S] : k \in 0..n}

\* one binary file and one text file with two added lines
BinaryAndTextDiff ==
    <<L_diff_git_png, L_binary_png, L_diff_git_py, L_old_py, L_header_py, L_hunk, L_add_u, L_add_v>>

\* a rename of a .png file with '+' content
PngRenameDiff == <<L_diff_git_png, L_old_png, L_header_png, L_hunk, L_add_u, L_add_v>>

\* a .py file whose first added line has the content "++"
PlusContentDiff == <<L_diff_git_py, L_old_py, L_header_py, L_hunk, L_three_plus, L_add_v>>

\* a .py file whose first added line has the content "++ b/i.png"
HeaderLikeContentDiff == <<L_diff_git_py, L_old_py, L_header_py, L_hunk, L_header_png, L_add_v>>

\* a .py file whose first added line has a form feed in its content
FormFeedContentDiff == <<L_diff_git_py, L_old_py, L_header_py, L_hunk, L_add_formfeed, L_add_v>>

DiffLineSeqs ==
    SeqsUpTo(CoreLines, MaxDiffLines)
        \cup {<<L_header_py>> \o t : t \in SeqsUpTo(AllLines, MaxTailLines)}
        \cup {BinaryAndTextDiff, PngRenameDiff}
        \cup {PlusContentDiff, HeaderLikeContentDiff, FormFeedContentDiff}

RECURSIVE JoinLines(_)
\* the text of a diff: every line ends with a newline
JoinLines(ls) == IF ls = <<>> THEN <<>> ELSE Head(ls) \o S_newline \o JoinLines(Tail(ls))

InitDiff ==
    /\ cfg = DiffConfig
    /\ alf = AllowedFiles_init(DiffConfig)
    /\ log = AllowedFiles_init_log(DiffConfig)
    /\ queries = 0
    /\ last_query = NoQuery
    /\ last_answer = FALSE
    /\ diff_text \in {JoinLines(ls) : ls \in DiffLineSeqs}
    /\ lines = <<>>
    /\ pos = 0
    /\ current_file = NoFile
    /\ current_is_binary = FALSE
    /\ added = <<>>
    /\ added_from = <<>>
    /\ dpc = "start"
    /\ PipelineIdle
    /\ MetricsIdle

\* analyzer.py:45-49: the initial state and diff_text.splitlines()
BeginExtract ==
    /\ dpc = "start"
    /\ lines' = SplitLines(diff_text)
    /\ pos' = 1
    /\ current_file' = NoFile
    /\ current_is_binary' = FALSE
    /\ added' = <<>>
    /\ added_from' = <<>>
    /\ dpc' = "loop"
    /\ UNCHANGED <<classifierVars, diff_text, pipelineVars, metricVars>>

\* analyzer.py:49-71: one iteration of the loop
ExtractLine ==
    /\ dpc = "loop"
    /\ pos <= Len(lines)
    /\ LET st == [current_file |-> current_file, current_is_binary |-> current_is_binary,
                  added |-> added]
           new == extract_line(st, lines[pos], ensure_loaded(alf))
       IN  /\ current_file' = new.current_file
           /\ current_is_binary' = new.current_is_binary
           /\ added' = new.added
           /\ added_from' = IF Len(new.added) > Len(added) THEN Append(added_from, pos)
                            ELSE added_from
    /\ alf' = IF CallsClassifier(lines[pos]) THEN ensure_loaded(alf) ELSE alf
    /\ pos' = pos + 1
    /\ UNCHANGED <<cfg, log, queries, last_query, last_answer, diff_text, lines, dpc>>
    /\ UNCHANGED <<pipelineVars, metricVars>>

\* analyzer.py:73: return added
FinishExtract ==
    /\ dpc = "loop"
    /\ pos > Len(lines)
    /\ dpc' = "done"
    /\ UNCHANGED <<classifierVars, diff_text, lines, pos, current_file, current_is_binary,
                   added, added_from, pipelineVars, metricVars>>

NextDiff == BeginExtract \/ ExtractLine \/ FinishExtract

SpecDiff == InitDiff /\ [][NextDiff]_vars

(***************************************************************************)
(* Properties of the extractor, stated on the positions of the lines.      *)
(***************************************************************************)
IsDiffGit(i) == StartsWith(lines[i], P_diff_git)

IsBinaryMarker(i) == StartsWith(lines[i], P_binary_files) /\ Contains(lines[i], P_differ)

IsFileHeader(i) == StartsWith(lines[i], P_plus3_space)

IsAddedLine(i) == StartsWith(lines[i], P_plus) /\ ~StartsWith(lines[i], P_plus3)

Largest(S) == CHOOSE x \in S : \A y \in S : y <= x

\* the last "diff --git" header before line i, or 0
BlockStart(i) ==
    LET hs == {j \in 1..(i - 1) : IsDiffGit(j)} IN IF hs = {} THEN 0 ELSE Largest(hs)

\* a binary marker lies between the block's start and line i
InBinaryBlock(i) == \E m \in (BlockStart(i) + 1)..(i - 1) : IsBinaryMarker(m)

HeadersInBlock(i) == {h \in (BlockStart(i) + 1)..(i - 1) : IsFileHeader(h)}

HeaderToken(h) == Strip(DropFirst(lines[h], 4))

HeaderPath(h) ==
    IF StartsWith(HeaderToken(h), P_b_slash) THEN DropFirst(HeaderToken(h), 2) ELSE HeaderToken(h)

\* line i has a file context: the last "+++ " header of its block names an accepted path
HasAcceptedHeader(i) ==
    /\ HeadersInBlock(i) # {}
    /\ LET h == Largest(HeadersInBlock(i))
       IN  /\ HeaderToken(h) # P_dev_null
           /\ is_code_path(ensure_loaded(alf), HeaderPath(h))

Excluded(i) == InBinaryBlock(i) \/ ~HasAcceptedHeader(i)

RECURSIVE CollectedUpTo(_)
\* the contents of the added lines among lines 1..n that are not excluded, in order
CollectedUpTo(n) ==
    IF n = 0 THEN <<>>
    ELSE CollectedUpTo(n - 1) \o
         (IF IsAddedLine(n) /\ ~Excluded(n) THEN <<DropFirst(lines[n], 1)>> ELSE <<>>)

\* C4: no element of the result comes from a '+' line of a binary block, of a
\* block whose "+++ " header names a rejected path or /dev/null, or of a block
\* that has had no "+++ " header yet; the diff with one binary file and one text
\* file with two '+' lines yields exactly these two lines.
C4_ExcludedLinesNeverContribute ==
    /\ \A k \in DOMAIN added :
           /\ IsAddedLine(added_from[k])
           /\ added[k] = DropFirst(lines[added_from[k]], 1)
           /\ ~Excluded(added_from[k])
    /\ (dpc = "done" /\ lines = BinaryAndTextDiff) => added = <<S_u, S_v>>

\* a finished extraction that kept a line and skipped a '+' line of a binary block
C4_Witness ==
    /\ dpc = "done"
    /\ added # <<>>
    /\ \E i \in DOMAIN lines : IsAddedLine(i) /\ InBinaryBlock(i) /\ HasAcceptedHeader(i)

\* C5: after any number of lines the extractor is in the state the line-by-line
\* state machine prescribes: current_is_binary tells whether a binary marker
\* followed the last "diff --git" header, current_file is the path of the block's
\* last "+++ " header when the classifier accepts it and None otherwise, and the
\* result is the contents of the collected '+' lines in the order of the diff.
C5_EqualsStateMachine ==
    dpc \in {"loop", "done"} =>
        /\ current_is_binary = InBinaryBlock(pos)
        /\ current_file = IF HasAcceptedHeader(pos)
                          THEN SomeFile(HeaderPath(Largest(HeadersInBlock(pos))))
                          ELSE NoFile
        /\ added = CollectedUpTo(pos - 1)

\* a finished extraction over a binary block followed by a text block whose added
\* line is collected
C5_Witness ==
    /\ dpc = "done"
    /\ added = <<S_v>>
    /\ \E m \in DOMAIN lines : IsBinaryMarker(m) /\ m < added_from[1]

(***************************************************************************)
(* The diff as git wrote it: its lines end at newlines only, and a hunk    *)
(* header announces how many lines of hunk content follow it.              *)
(***************************************************************************)
RECURSIVE GitLinesFrom(_, _)
\* the lines of the text from position i on, split at "\n" only
GitLinesFrom(text, i) ==
    IF i > Len(text) THEN <<>>
    ELSE LET ends == {j \in i..Len(text) : text[j] = "\n"}
         IN  IF ends = {} THEN <<SubSeq(text, i, Len(text))>>
             ELSE LET e == CHOOSE j \in ends : \A k \in ends : j <= k
                  IN  <<SubSeq(text, i, e - 1)>> \o GitLinesFrom(text, e + 1)

GitLines == GitLinesFrom(diff_text, 1)

\* the number of content lines of the hunk that "@@ -0,0 +1,2 @@" opens
HunkLength(line) == IF line = L_hunk THEN 2 ELSE 0

\* line i is content of a hunk (a hunk header begins with '@', content never does)
InHunk(i) == \E h \in 1..(i - 1) : HunkLength(GitLines[h]) >= i - h

\* line i is an added line of a hunk
HunkAddedLine(i) == InHunk(i) /\ StartsWith(GitLines[i], P_plus)

\* the last "diff --git" header before line i that is not hunk content, or 0
FileBlockStart(i) ==
    LET hs == {j \in 1..(i - 1) : ~InHunk(j) /\ StartsWith(GitLines[j], P_diff_git)}
    IN  IF hs = {} THEN 0 ELSE Largest(hs)

\* the file block of line i has a binary marker before line i
FileBlockIsBinary(i) ==
    \E m \in (FileBlockStart(i) + 1)..(i - 1) :
        /\ ~InHunk(m)
        /\ StartsWith(GitLines[m], P_binary_files)
        /\ Contains(GitLines[m], P_differ)

\* the "+++ " headers of the file block of line i
FileHeadersOf(i) ==
    {h \in (FileBlockStart(i) + 1)..(i - 1) :
        ~InHunk(h) /\ StartsWith(GitLines[h], P_plus3_space)}

\* the path the file header at line h names
FileHeaderPath(h) ==
    LET token == Strip(DropFirst(GitLines[h], 4))
    IN  IF StartsWith(token, P_b_slash) THEN DropFirst(token, 2) ELSE token

\* the file block of line i is of a file the classifier accepts
FileBlockAccepted(i) ==
    /\ FileHeadersOf(i) # {}
    /\ LET h == Largest(FileHeadersOf(i))
       IN  /\ Strip(DropFirst(GitLines[h], 4)) # P_dev_null
           /\ is_code_path(ensure_loaded(alf), FileHeaderPath(h))

\* C21: when the extraction is finished, the content of every added line of a
\* hunk in a classifier-accepted, non-binary file block is an element of the
\* result, whatever the content; and no line of hunk content changes
\* current_file.
C21_EveryAddedLineOfAcceptedBlock ==
    /\ [](dpc = "done" =>
            \A i \in DOMAIN GitLines :
                (HunkAddedLine(i) /\ FileBlockAccepted(i) /\ ~FileBlockIsBinary(i))
                    => \E k \in DOMAIN added : added[k] = DropFirst(GitLines[i], 1))
    /\ [][(dpc = "loop" /\ lines = GitLines /\ current_file' # current_file)
              => ~InHunk(pos)]_vars

(***************************************************************************)
(* The pipeline: RepoAnalyzer._process_bundles, one loop iteration per     *)
(* step, run again after it finished, aborted or was stopped.              *)
(***************************************************************************)
\* the bundle files that may lie under the dataset directory, in sorted order
BundleUniverse == <<B_p_a, B_p_null, B_q_a>>

\* the sorted listings of at most MaxBundles of them
BundleListings ==
    { ls \in SeqsUpTo(Range(BundleUniverse), MaxBundles) :
        \A i, j \in DOMAIN ls :
            i < j => \E m, n \in DOMAIN BundleUniverse :
                        m < n /\ BundleUniverse[m] = ls[i] /\ BundleUniverse[n] = ls[j] }

\* the output file before the first run: absent, zero bytes long, holding the
\* header of some other table, or holding content that read_csv cannot parse
InitialKinds == {"absent", "zero_bytes", "foreign_header", "unreadable"}

InitialFile(kind, desc) ==
    CASE kind = "absent" -> AbsentFile
      [] kind = "zero_bytes" -> FileOf(<<>>)
      [] kind = "foreign_header" -> FileOf(<<HeaderLine(ForeignColumns)>>)
      [] kind = "unreadable" -> FileOf(<<GarbageLine>>)

Init ==
    /\ cfg = DiffConfig
    /\ alf = NoInstance
    /\ log = {}
    /\ queries = 0
    /\ last_query = NoQuery
    /\ last_answer = FALSE
    /\ DiffIdle
    /\ bundle_files \in BundleListings
    /\ store \in {[d \in Passes |-> InitialFile(kind, d)] : kind \in InitialKinds}
    /\ tokenizer_provider = "none"
    /\ ppc = "idle"
    /\ pass = "Metadata"
    /\ processed = {}
    /\ idx = 0
    /\ history = <<>>
    /\ clone_failures = {}
    /\ retried = FALSE
    /\ failures = 0
    /\ MetricsIdle

StemsOf(files) == {PathStem(files[i]) : i \in DOMAIN files}

\* every repository of the listing has a data line in the file
HasRowForEvery(file, files) == StemsOf(files) \subseteq Range(RowNames(file))

EndRun(outcome) == [history EXCEPT ![Len(history)].outcome = outcome]

\* analyzer.py:279-284, 304-310: run_metadata_pipeline or run_tokens_pipeline is
\* called on an analyzer (the metadata pipeline on one without a tokenizer, as
\* cli.py:102 asks for), lists the bundles, returns when there are none, else
\* reads the processed set
StartRun(desc, provider) ==
    /\ ppc \in {"idle", "finished", "aborted", "crashed"}
    /\ Len(history) < MaxRuns
    /\ desc = "Metadata" => provider = "none"
    /\ tokenizer_provider' = provider
    /\ pass' = desc
    /\ history' = Append(history,
            [ desc |-> desc,
              outcome |-> IF bundle_files = <<>> THEN "finished" ELSE "running",
              appended |-> <<>>,
              had_all |-> HasRowForEvery(store[desc], bundle_files),
              rows_before |-> Len(RowNames(store[desc])) ])
    /\ IF bundle_files = <<>>
       THEN /\ ppc' = "finished"
            /\ UNCHANGED <<processed, idx>>
       ELSE /\ ppc' = "loop"
            /\ processed' = processed_repos(store[csv_path(desc)])
            /\ idx' = 1
    /\ UNCHANGED <<classifierVars, diffVars, metricVars, bundle_files, store, clone_failures, retried,
                   failures>>

\* analyzer.py:287-290: the repository is in processed, skip it
SkipBundle ==
    /\ ppc = "loop"
    /\ idx <= Len(bundle_files)
    /\ PathStem(bundle_files[idx]) \in processed
    /\ idx' = idx + 1
    /\ UNCHANGED <<classifierVars, diffVars, metricVars, bundle_files, store, tokenizer_provider, ppc, pass,
                   processed, history, clone_failures, retried, failures>>

\* analyzer.py:292-300: analyse the repository, append its row, add it to processed
AnalyzeAndAppend(env) ==
    /\ ppc = "loop"
    /\ idx <= Len(bundle_files)
    /\ PathStem(bundle_files[idx]) \notin processed
    /\ env # AllOk => failures < MaxFailures
    /\ failures' = IF env # AllOk THEN failures + 1 ELSE failures
    /\ LET repo_name == PathStem(bundle_files[idx])
           result == analyze_fn(pass, bundle_files[idx], env, tokenizer_provider)
           cloned == ~(pass = "Tokens" /\ tokenizer_provider = "none")
       IN  /\ ~result.raised
           /\ store' = [store EXCEPT ![csv_path(pass)] = to_csv(@, result.row, ColumnsOf(pass))]
           /\ processed' = processed \cup {repo_name}
           /\ history' = [history EXCEPT ![Len(history)].appended = Append(@, repo_name)]
           /\ clone_failures' = IF cloned /\ env.clone = "fail"
                                THEN clone_failures \cup {<<pass, repo_name>>}
                                ELSE clone_failures
           /\ retried' = (retried \/ <<pass, repo_name>> \in clone_failures)
    /\ idx' = idx + 1
    /\ UNCHANGED <<classifierVars, diffVars, metricVars, bundle_files, tokenizer_provider, ppc, pass>>

\* analyzer.py:292: analyze_fn raises; the exception leaves _process_bundles
AnalyzeRaises(env) ==
    /\ ppc = "loop"
    /\ idx <= Len(bundle_files)
    /\ PathStem(bundle_files[idx]) \notin processed
    /\ analyze_fn(pass, bundle_files[idx], env, tokenizer_provider).raised
    /\ failures < MaxFailures
    /\ failures' = failures + 1
    /\ ppc' = "aborted"
    /\ history' = EndRun("aborted")
    /\ retried' = (retried \/ <<pass, PathStem(bundle_files[idx])>> \in clone_failures)
    /\ UNCHANGED <<classifierVars, diffVars, metricVars, bundle_files, store, tokenizer_provider, pass,
                   clone_failures>>
    /\ processed' = {}
    /\ idx' = 0

\* analyzer.py:302: the loop is over
FinishRun ==
    /\ ppc = "loop"
    /\ idx > Len(bundle_files)
    /\ ppc' = "finished"
    /\ history' = EndRun("finished")
    /\ UNCHANGED <<classifierVars, diffVars, metricVars, bundle_files, store, tokenizer_provider, pass,
                   clone_failures, retried, failures>>
    /\ processed' = {}
    /\ idx' = 0

\* the process is stopped between two repositories, after at least one row
Crash ==
    /\ ppc = "loop"
    /\ idx <= Len(bundle_files)
    /\ history[Len(history)].appended # <<>>
    /\ ppc' = "crashed"
    /\ history' = EndRun("crashed")
    /\ UNCHANGED <<classifierVars, diffVars, metricVars, bundle_files, store, tokenizer_provider, pass,
                   clone_failures, retried, failures>>
    /\ processed' = {}
    /\ idx' = 0

Next ==
    \/ \E desc \in Passes, provider \in {"none", "configured"} : StartRun(desc, provider)
    \/ SkipBundle
    \/ \E env \in Envs(pass, tokenizer_provider) : AnalyzeAndAppend(env)
    \/ \E env \in Envs(pass, tokenizer_provider) : AnalyzeRaises(env)
    \/ FinishRun
    \/ Crash

Spec == Init /\ [][Next]_vars

(***************************************************************************)
(* Properties of the pipeline.                                             *)
(***************************************************************************)
CountIn(seq, x) == Cardinality({i \in DOMAIN seq : seq[i] = x})

\* runs r and s are two runs of the same pipeline, both finished, with no run of
\* that pipeline between them
ConsecutiveFinished(r, s) ==
    /\ r < s
    /\ history[r].desc = history[s].desc
    /\ history[r].outcome = "finished"
    /\ history[s].outcome = "finished"
    /\ \A m \in DOMAIN history : (r < m /\ m < s) => history[m].desc # history[r].desc

\* C1: running _process_bundles twice over the same dataset directory, the
\* output store untouched in between, appends each repository's row exactly
\* once in total; a run that starts with a store already holding a row for
\* every repository appends no row.
C1_Idempotence ==
    /\ \A r \in DOMAIN history :
           (history[r].outcome = "finished" /\ history[r].had_all)
               => history[r].appended = <<>>
    /\ \A r, s \in DOMAIN history :
           ConsecutiveFinished(r, s) =>
               \A name \in StemsOf(bundle_files) :
                   CountIn(history[r].appended \o history[s].appended, name) = 1

\* C2: a run stopped between two repositories after at least one row was
\* appended, then restarted on the same directory and store, leaves the store
\* with exactly one row per repository: no repo_name twice, no repository missing.
C2_CrashRecovery ==
    \A r \in DOMAIN history :
        ( /\ r > 1
          /\ r = Len(history)
          /\ history[r - 1].outcome = "crashed"
          /\ history[r - 1].desc = history[r].desc
          /\ history[r].outcome = "finished" )
        => LET names == RowNames(store[history[r].desc])
           IN  /\ Len(names) = Cardinality(StemsOf(bundle_files))
               /\ \A name \in StemsOf(bundle_files) : CountIn(names, name) = 1

\* C6: once the loop over the bundles has started, no outcome of the external
\* collaborators aborts the run: no run ends with an exception.
C6_NoFailureAbortsTheRun ==
    \A r \in DOMAIN history : history[r].outcome # "aborted"

LastRow(file) == file.lines[Len(file.lines)].row

\* C7: when the clone of a bundle fails, either pipeline appends exactly one
\* row, with the repo_name and the default value of every metric, adds the
\* repository to processed, and no later run analyses that repository again.
C7_CloneFailurePolicy ==
    [][ /\ clone_failures' # clone_failures =>
               LET repo_name == PathStem(bundle_files[idx])
               IN  /\ Len(RowNames(store'[pass])) = Len(RowNames(store[pass])) + 1
                   /\ LastRow(store'[pass]) = DefaultRowOf(pass, repo_name)
                   /\ repo_name \in processed'
        /\ ~retried' ]_vars

\* the store is present, parses, has a repo_name column and at least one data line
ValidStore(file) ==
    /\ file.exists
    /\ file.lines # <<>>
    /\ \A i \in DOMAIN file.lines : file.lines[i].kind # "garbage"
    /\ file.lines[1].kind = "header"
    /\ "repo_name" \in Range(file.lines[1].names)
    /\ Len(file.lines) > 1

\* C8: _processed_repos returns the empty set when the store is absent,
\* unreadable, empty or without a repo_name column, and exactly the set of the
\* repo_name values present in the store when the store is valid.
C8_ProcessedReposOfStore ==
    [][ (Len(history') = Len(history) + 1 /\ bundle_files # <<>>) =>
            IF ValidStore(store[pass'])
            THEN processed' = Range(RowNames(store[pass']))
            ELSE processed' = {} ]_vars

\* the lines a file had are still its first lines
KeepsLines(before, after) ==
    /\ Len(after.lines) >= Len(before.lines)
    /\ SubSeq(after.lines, 1, Len(before.lines)) = before.lines
    /\ before.exists => after.exists

\* C17: during a run, every repo_name in processed has a row in the output
\* store, processed only grows, and no row of the store is changed or removed.
C17_ProcessedHasRowsAndGrows ==
    [][ /\ ppc' = "loop" =>
               \A name \in processed' : name \in Range(RowNames(store'[pass']))
        /\ (ppc = "loop" /\ ppc' = "loop") => processed \subseteq processed'
        /\ \A d \in Passes : KeepsLines(store[d], store'[d]) ]_vars

OtherPass(desc) == IF desc = "Metadata" THEN "Tokens" ELSE "Metadata"

\* C19: the two passes are resumable independently: a run reads and appends
\* only its own store and leaves the store of the other pass unchanged, and a
\* repository recorded by one pass is still processed by the other.
C19_PassesAreIndependent ==
    [][ /\ store'[OtherPass(pass')] = store[OtherPass(pass')]
        /\ (Len(history') = Len(history) + 1 /\ bundle_files # <<>>)
               => processed' = processed_repos(store[pass'])
        /\ \A r \in DOMAIN history' :
               (history'[r].outcome = "finished" /\ history'[r].rows_before = 0)
                   => StemsOf(bundle_files) \subseteq Range(history'[r].appended) ]_vars

\* the metadata pass recorded the repositories, then the tokens pass finished
\* and recorded every one of them too
C19_Witness ==
    /\ Len(history) = 2
    /\ history[1].desc = "Metadata" /\ history[1].outcome = "finished"
    /\ history[2].desc = "Tokens" /\ history[2].outcome = "finished"
    /\ Len(bundle_files) = 2
    /\ Len(history[1].appended) = 2
    /\ Range(history[2].appended) = StemsOf(bundle_files)
    /\ Len(RowNames(store["Metadata"])) = 2
    /\ Len(RowNames(store["Tokens"])) = 2

\* C20: whatever the output file was before (absent, zero bytes, without a
\* repo_name header, valid), one complete run leaves it so that _processed_repos
\* finds every repository just processed: the run that follows appends no row.
C20_RunAfterCompleteRunAppendsNothing ==
    \A r, s \in DOMAIN history :
        ConsecutiveFinished(r, s) => history[s].appended = <<>>

\* the first run of the program is over, and it started from absent output files
\* (the file of the other pipeline is as it was before the run)
FirstRunOverAbsentStore ==
    /\ Len(history) = 1
    /\ history[1].outcome = "finished"
    /\ store[OtherPass(pass)] = AbsentFile

\* C22: a complete run that starts from an absent output file appends one row
\* for each bundle file of the recursive listing, in the order of the listing,
\* and the file then holds as many rows as there are bundle files, also when
\* two bundle files of different subdirectories have the same stem.
C22_OneRowPerBundleFile ==
    FirstRunOverAbsentStore =>
        /\ history[1].appended = [i \in DOMAIN bundle_files |-> PathStem(bundle_files[i])]
        /\ Len(RowNames(store[pass])) = Len(bundle_files)

(***************************************************************************)
(* TreeSitterManager (tree_sitter_support.py) and compute_avg_func_length  *)
(* (metrics.py), one file or one node per step.                            *)
(***************************************************************************)
\* dict.get(key), with the value a missing key gives
MapGet(pairs, key, missing) ==
    IF \E kv \in pairs : kv[1] = key
    THEN (CHOOSE kv \in pairs : kv[1] = key)[2]
    ELSE missing

\* what get_language and get_parser do during one parser_for_suffix call: they
\* succeed, both fail, or only one of them succeeds
LoadsAll == [get_language |-> TRUE, get_parser |-> TRUE]

LoadEnvs == [get_language : BOOLEAN, get_parser : BOOLEAN]

\* TreeSitterManager._ensure_languages, on [config, languages, parsers]
ensure_languages(self, env) ==
    LET needed_langs == {kv[2] : kv \in self.config.extension_language_map}
        got_language == {l \in needed_langs : l \notin self.languages /\ env.get_language}
    IN  [ self EXCEPT
            !.languages = @ \cup got_language,
            !.parsers = @ \cup {l \in got_language : env.get_parser} ]

NoParser(self) == [self |-> self, returned |-> FALSE, lang |-> "", kinds |-> {}]

\* parser_for_suffix without the second get_parser attempt
parser_for_suffix_no_second_attempt(self, suffix, env) ==
    LET loaded == ensure_languages(self, env)
        lang_name == MapGet(loaded.config.extension_language_map, Lower(suffix), "")
        func_node_types == MapGet(loaded.config.lang_func_node_types, lang_name, {})
    IN  IF lang_name = "" \/ func_node_types = {} THEN NoParser(loaded)
        ELSE IF lang_name \in loaded.parsers
        THEN [self |-> loaded, returned |-> TRUE, lang |-> lang_name, kinds |-> func_node_types]
        ELSE NoParser(loaded)

\* parser_for_suffix returning the parser whatever the node kinds configured
parser_for_suffix_ignoring_kinds(self, suffix, env) ==
    LET loaded == ensure_languages(self, env)
        lang_name == MapGet(loaded.config.extension_language_map, Lower(suffix), "")
        func_node_types == MapGet(loaded.config.lang_func_node_types, lang_name, {})
    IN  IF lang_name = "" THEN NoParser(loaded)
        ELSE IF lang_name \in loaded.parsers
        THEN [self |-> loaded, returned |-> TRUE, lang |-> lang_name, kinds |-> func_node_types]
        ELSE IF env.get_parser
        THEN [ self |-> [loaded EXCEPT !.parsers = @ \cup {lang_name}],
               returned |-> TRUE, lang |-> lang_name, kinds |-> func_node_types ]
        ELSE NoParser(loaded)

\* TreeSitterManager.parser_for_suffix: the manager afterwards, and the
\* (parser, func_node_types) pair (returned = TRUE) or None
parser_for_suffix(self, suffix, env) ==
    LET loaded == ensure_languages(self, env)
        lang_name == MapGet(loaded.config.extension_language_map, Lower(suffix), "")
        func_node_types == MapGet(loaded.config.lang_func_node_types, lang_name, {})
    IN  IF lang_name = "" THEN NoParser(loaded)
        ELSE IF func_node_types = {} THEN NoParser(loaded)
        ELSE IF lang_name \in loaded.parsers
        THEN [self |-> loaded, returned |-> TRUE, lang |-> lang_name, kinds |-> func_node_types]
        ELSE IF env.get_parser
        THEN [ self |-> [loaded EXCEPT !.parsers = @ \cup {lang_name}],
               returned |-> TRUE, lang |-> lang_name, kinds |-> func_node_types ]
        ELSE NoParser(loaded)

Manager == [config |-> ts_config, languages |-> ts_languages, parsers |-> ts_parsers]

\* the configurations of the manager: both languages with node kinds,
\* javascript with an empty set of kinds, javascript without kinds, and the
\* empty TreeSitterConfig()
ExtensionLanguageMap == {<<S_dotpy, "python">>, <<S_dotjs, "javascript">>}

TsConfigs ==
    { [ extension_language_map |-> ExtensionLanguageMap,
        lang_func_node_types |->
            {<<"python", {"function_definition"}>>, <<"javascript", {"function_declaration"}>>} ],
      [ extension_language_map |-> ExtensionLanguageMap,
        lang_func_node_types |-> {<<"python", {"function_definition"}>>, <<"javascript", {}>>} ],
      [ extension_language_map |-> ExtensionLanguageMap,
        lang_func_node_types |-> {<<"python", {"function_definition"}>>} ],
      [ extension_language_map |-> {}, lang_func_node_types |-> {} ] }

\* a syntax tree: its nodes by number, node 1 the root
Node(type, start_row, end_row, children) ==
    [type |-> type, start_row |-> start_row, end_row |-> end_row, children |-> children]

\* def f(): over 3 lines
TreeThreeLines ==
    << Node("module", 0, 2, <<2>>),
       Node("function_definition", 0, 2, <<3>>),
       Node("block", 1, 2, <<>>) >>

\* def g(): over 7 lines
TreeSevenLines ==
    << Node("module", 0, 6, <<2>>),
       Node("function_definition", 0, 6, <<3>>),
       Node("block", 1, 6, <<>>) >>

\* a class whose method of 5 lines holds a nested function of 2 lines, then a
\* function of 1 line
TreeNested ==
    << Node("module", 0, 7, <<2, 6>>),
       Node("class_definition", 0, 5, <<3>>),
       Node("function_definition", 1, 5, <<4>>),
       Node("block", 2, 5, <<5>>),
       Node("function_definition", 3, 4, <<>>),
       Node("function_definition", 7, 7, <<>>) >>

\* function h() {...} over 4 lines
TreeJs ==
    << Node("program", 0, 3, <<2>>),
       Node("function_declaration", 0, 3, <<>>) >>

NoTree == <<>>

\* a kept file: its suffix, whether read_text succeeds, whether the text is
\* blank, whether parser.parse succeeds, and the tree it parses to
KeptFile(suffix, readable, blank, parses, tree) ==
    [suffix |-> suffix, readable |-> readable, blank |-> blank, parses |-> parses, tree |-> tree]

KeptFileUniverse ==
    { KeptFile(S_dotpy, TRUE, FALSE, TRUE, TreeThreeLines),
      KeptFile(S_dotPY, TRUE, FALSE, TRUE, TreeSevenLines),
      KeptFile(S_dotpy, TRUE, FALSE, TRUE, TreeNested),
      KeptFile(S_dotjs, TRUE, FALSE, TRUE, TreeJs),
      KeptFile(S_dotpy, TRUE, TRUE, TRUE, NoTree),
      KeptFile(S_dotpy, FALSE, FALSE, TRUE, NoTree),
      KeptFile(S_dotpy, TRUE, FALSE, FALSE, NoTree),
      KeptFile(S_dotgz, TRUE, FALSE, TRUE, NoTree) }

\* the span of a node taken as end_row - start_row
span_length_exclusive(node) == node.end_row - node.start_row

\* metrics.py:170-172: length = end_row - start_row + 1
span_length(node) == node.end_row - node.start_row + 1

NotParsed == [parsed |-> FALSE, kinds |-> {}]

ParsedWith(kinds) == [parsed |-> TRUE, kinds |-> kinds]

InitFuncLength ==
    /\ cfg = DiffConfig
    /\ alf = NoInstance
    /\ log = {}
    /\ queries = 0
    /\ last_query = NoQuery
    /\ last_answer = FALSE
    /\ DiffIdle
    /\ PipelineIdle
    /\ ToolsIdle
    /\ \/ ts_present = TRUE /\ ts_config \in TsConfigs
       \/ ts_present = FALSE /\ ts_config = [extension_language_map |-> {}, lang_func_node_types |-> {}]
    /\ ts_languages = {}
    /\ ts_parsers = {}
    /\ kept_files \in SeqsUpTo(KeptFileUniverse, MaxKeptFiles)
    /\ fi = 0
    /\ stack = <<>>
    /\ total_func_lines = 0
    /\ total_funcs = 0
    /\ avg_result = Zero
    /\ apc = "start"
    /\ visited = <<>>
    /\ parsed_with = <<>>
    /\ last_call = NoCall
    /\ failed_langs = {}
    /\ load_failures = 0
    /\ DupIdle
    /\ LangIdle
    /\ CommitIdle

funcFrame == <<classifierVars, diffVars, pipelineVars, dupVars, langVars, commitVars, toolVars>>

\* metrics.py:135-140: without a manager return 0.0, else start the loop
BeginAvgFuncLength ==
    /\ apc = "start"
    /\ IF ~ts_present
       THEN /\ apc' = "done"
            /\ avg_result' = Zero
            /\ fi' = fi
       ELSE /\ apc' = "files"
            /\ avg_result' = avg_result
            /\ fi' = 1
    /\ total_func_lines' = 0
    /\ total_funcs' = 0
    /\ UNCHANGED <<funcFrame, ts_present, ts_config, ts_languages, ts_parsers, kept_files, stack,
                   visited, parsed_with, last_call, failed_langs, load_failures>>

\* metrics.py:142-162: the next file: ask for its parser, read it, parse it
NextFile(env) ==
    /\ apc = "files"
    /\ fi <= Len(kept_files)
    /\ env # LoadsAll => load_failures < MaxLoadFailures
    /\ load_failures' = IF env # LoadsAll THEN load_failures + 1 ELSE load_failures
    /\ LET file == kept_files[fi]
           parser_entry == parser_for_suffix(Manager, file.suffix, env)
           needed_langs == {kv[2] : kv \in ts_config.extension_language_map}
           walked == /\ parser_entry.returned
                     /\ file.readable
                     /\ ~file.blank
                     /\ file.parses
       IN  /\ ts_languages' = parser_entry.self.languages
           /\ ts_parsers' = parser_entry.self.parsers
           /\ last_call' = [ suffix |-> file.suffix, returned |-> parser_entry.returned,
                             kinds |-> parser_entry.kinds, lang |-> parser_entry.lang,
                             env |-> env ]
           /\ failed_langs' = failed_langs \cup
                  {l \in needed_langs : l \notin ts_parsers /\ l \notin parser_entry.self.parsers}
           /\ IF walked
              THEN /\ stack' = <<1>>
                   /\ apc' = "walk"
                   /\ fi' = fi
                   /\ parsed_with' = Append(parsed_with, ParsedWith(parser_entry.kinds))
              ELSE /\ stack' = <<>>
                   /\ apc' = "files"
                   /\ fi' = fi + 1
                   /\ parsed_with' = Append(parsed_with, NotParsed)
    /\ UNCHANGED <<funcFrame, ts_present, ts_config, kept_files, total_func_lines, total_funcs,
                   avg_result, visited>>

\* metrics.py:167-175: one iteration of the while loop
PopNode ==
    /\ apc = "walk"
    /\ stack # <<>>
    /\ LET n == stack[Len(stack)]
           node == kept_files[fi].tree[n]
           length == span_length(node)
           counted == node.type \in parsed_with[fi].kinds /\ length > 0
       IN  /\ total_func_lines' = IF counted THEN total_func_lines + length ELSE total_func_lines
           /\ total_funcs' = IF counted THEN total_funcs + 1 ELSE total_funcs
           /\ stack' = SubSeq(stack, 1, Len(stack) - 1) \o node.children
           /\ visited' = Append(visited, <<fi, n>>)
    /\ UNCHANGED <<funcFrame, ts_present, ts_config, ts_languages, ts_parsers, kept_files, fi,
                   avg_result, apc, parsed_with, last_call, failed_langs, load_failures>>

\* metrics.py:167: the stack is empty, on to the next file
EndWalk ==
    /\ apc = "walk"
    /\ stack = <<>>
    /\ apc' = "files"
    /\ fi' = fi + 1
    /\ UNCHANGED <<funcFrame, ts_present, ts_config, ts_languages, ts_parsers, kept_files, stack,
                   total_func_lines, total_funcs, avg_result, visited, parsed_with, last_call,
                   failed_langs, load_failures>>

\* metrics.py:174-177: return 0.0 or total_func_lines / total_funcs
ReturnAvgFuncLength ==
    /\ apc = "files"
    /\ fi > Len(kept_files)
    /\ apc' = "done"
    /\ avg_result' = IF total_funcs = 0 THEN Zero
                     ELSE [num |-> total_func_lines, den |-> total_funcs]
    /\ UNCHANGED <<funcFrame, ts_present, ts_config, ts_languages, ts_parsers, kept_files, fi,
                   stack, total_func_lines, total_funcs, visited, parsed_with, last_call,
                   failed_langs, load_failures>>

NextFuncLength ==
    \/ BeginAvgFuncLength
    \/ \E env \in LoadEnvs : NextFile(env)
    \/ PopNode
    \/ EndWalk
    \/ ReturnAvgFuncLength

SpecFuncLength == InitFuncLength /\ [][NextFuncLength]_vars

(***************************************************************************)
(* Properties of compute_avg_func_length and of the parser registry.       *)
(***************************************************************************)
\* the function nodes: <<file index, node number>> of every node, at any depth
\* of a file that was parsed, whose type is a function-node kind of the file's
\* language and whose span is positive
FunctionNodes ==
    { fn \in UNION {{<<f, n>> : n \in DOMAIN kept_files[f].tree} : f \in DOMAIN parsed_with} :
        /\ parsed_with[fn[1]].parsed
        /\ kept_files[fn[1]].tree[fn[2]].type \in parsed_with[fn[1]].kinds
        /\ kept_files[fn[1]].tree[fn[2]].end_row - kept_files[fn[1]].tree[fn[2]].start_row + 1 > 0 }

RECURSIVE SumOfSpans(_)
SumOfSpans(fns) ==
    IF fns = {} THEN 0
    ELSE LET fn == CHOOSE x \in fns : TRUE
             node == kept_files[fn[1]].tree[fn[2]]
         IN  (node.end_row - node.start_row + 1) + SumOfSpans(fns \ {fn})

\* C12: compute_avg_func_length returns 0.0 when no function node is found, else
\* the sum of end_row - start_row + 1 over the function nodes divided by their
\* number; every node of a parsed file is taken from the stack exactly once
\* (so the traversal ends), a 3-line and a 7-line function giving 5.0.
C12_AvgFuncLengthIsMean ==
    /\ \A v \in Range(visited) : CountIn(visited, v) = 1
    /\ \A i \in DOMAIN stack : \A j \in DOMAIN visited : visited[j] # <<fi, stack[i]>>
    /\ apc = "done" =>
          /\ FunctionNodes = {} => avg_result = Zero
          /\ FunctionNodes # {} =>
                /\ avg_result.num = SumOfSpans(FunctionNodes)
                /\ avg_result.den = Cardinality(FunctionNodes)
          /\ \A f \in DOMAIN parsed_with :
                parsed_with[f].parsed =>
                    \A n \in DOMAIN kept_files[f].tree : CountIn(visited, <<f, n>>) = 1

\* a file with a 3-line function and a file with a 7-line function: 10 / 2 = 5.0
C12_Witness ==
    /\ apc = "done"
    /\ Len(kept_files) = 2
    /\ kept_files[1].tree = TreeThreeLines
    /\ kept_files[2].tree = TreeSevenLines
    /\ avg_result = [num |-> 10, den |-> 2]
    /\ avg_result.num = 5 * avg_result.den

\* a step that makes a parser_for_suffix call
CallsParserForSuffix == Len(parsed_with') > Len(parsed_with)

\* the language the configuration maps the lower-cased suffix to, "" for none
MappedLanguage(suffix) == MapGet(ts_config.extension_language_map, Lower(suffix), "")

ConfiguredKinds(lang) == MapGet(ts_config.lang_func_node_types, lang, {})

\* C15: the registry does not cache failures: when the grammar or the parser of
\* a language failed to load in an earlier parser_for_suffix call, a later call
\* for a suffix of that language, in which loading succeeds, returns a parser.
C15_FailuresAreNotCached ==
    [][ CallsParserForSuffix =>
            LET lang == MappedLanguage(last_call'.suffix)
            IN  ( /\ lang \in failed_langs
                  /\ ConfiguredKinds(lang) # {}
                  /\ last_call'.env = LoadsAll )
                => (last_call'.returned /\ lang \in ts_parsers') ]_vars

\* a parser was returned for a language that had failed to load before
C15_Witness ==
    /\ last_call.returned
    /\ last_call.lang \in failed_langs
    /\ last_call.lang \in ts_parsers

\* C16: parser_for_suffix(s) returns a (parser, node kinds) pair exactly when
\* the lower-cased s is mapped to a language, that language has a non-empty
\* set of function-node kinds, and a parser for it can be obtained (it is held
\* already, or get_parser succeeds); otherwise it returns None.
C16_ParserForSuffixIff ==
    [][ CallsParserForSuffix =>
            LET call == last_call'
                lang == MappedLanguage(call.suffix)
                kinds == ConfiguredKinds(lang)
                obtainable == lang \in ts_parsers \/ call.env.get_parser
            IN  /\ call.returned <=> (lang # "" /\ kinds # {} /\ obtainable)
                /\ call.returned =>
                      (call.lang = lang /\ call.kinds = kinds /\ lang \in ts_parsers') ]_vars

\* the parser of javascript is loaded, its set of node kinds is empty or missing,
\* and the call for .js returned None
C16_Witness ==
    /\ last_call.suffix = S_dotjs
    /\ ~last_call.returned
    /\ "javascript" \in ts_parsers
    /\ MappedLanguage(S_dotjs) = "javascript"

(***************************************************************************)
(* compute_duplication_ratio (metrics.py), one file per step.              *)
(***************************************************************************)
\* a kept file: whether read_text succeeds, and its text
DupFile(readable, text) == [readable |-> readable, text |-> text]

DupFileUniverse ==
    { DupFile(TRUE, D_x_y), DupFile(TRUE, D_x_padded_twice), DupFile(TRUE, D_blank_only),
      DupFile(TRUE, D_z_x), DupFile(TRUE, D_ten_lines), DupFile(TRUE, S_empty),
      DupFile(FALSE, D_x_y) }

\* metrics.py:195-198: the stripped non-blank lines of a text, in order
stripped_lines(text) ==
    LET ls == SplitLines(text)
    IN  SelectSeq([i \in DOMAIN ls |-> Strip(ls[i])], LAMBDA l : l # <<>>)

StrippedLineUniverse ==
    UNION {Range(stripped_lines(f.text)) : f \in DupFileUniverse}

\* hash(str) depends on the hash seed of the process and maps the strings into
\* 64-bit integers: two different lines may have the same hash.  Taken here:
\* a hash without a collision on the lines of the model, and one under which
\* the lines x and z collide.
HashFunctions ==
    { [l \in StrippedLineUniverse |-> l],
      [l \in StrippedLineUniverse |-> IF l = S_z THEN S_x ELSE l] }

InitDuplication ==
    /\ cfg = DiffConfig
    /\ alf = NoInstance
    /\ log = {}
    /\ queries = 0
    /\ last_query = NoQuery
    /\ last_answer = FALSE
    /\ DiffIdle
    /\ PipelineIdle
    /\ ToolsIdle
    /\ FuncIdle
    /\ dup_files \in SeqsUpTo(DupFileUniverse, MaxDupFiles)
    /\ hash_of \in HashFunctions
    /\ di = 1
    /\ total_lines = 0
    /\ uniq = {}
    /\ dup_result = Zero
    /\ upc = "loop"
    /\ LangIdle
    /\ CommitIdle

dupFrame == <<classifierVars, diffVars, pipelineVars, funcVars, langVars, commitVars, toolVars>>

\* metrics.py:188-200: one iteration of the loop over the files
DupNextFile ==
    /\ upc = "loop"
    /\ di <= Len(dup_files)
    /\ LET file == dup_files[di]
           ls == IF file.readable THEN stripped_lines(file.text) ELSE <<>>
       IN  /\ total_lines' = total_lines + Len(ls)
           /\ uniq' = uniq \cup {hash_of[l] : l \in Range(ls)}
    /\ di' = di + 1
    /\ UNCHANGED <<dupFrame, dup_files, hash_of, dup_result, upc>>

\* metrics.py:201-203: return 0.0 or 1.0 - len(uniq) / total_lines
DupReturn ==
    /\ upc = "loop"
    /\ di > Len(dup_files)
    /\ upc' = "done"
    /\ dup_result' = IF total_lines = 0 THEN Zero
                     ELSE [num |-> total_lines - Cardinality(uniq), den |-> total_lines]
    /\ UNCHANGED <<dupFrame, dup_files, hash_of, di, total_lines, uniq>>

NextDuplication == DupNextFile \/ DupReturn

SpecDuplication == InitDuplication /\ [][NextDuplication]_vars

RECURSIVE ConcatAll(_)
ConcatAll(seqs) == IF seqs = <<>> THEN <<>> ELSE Head(seqs) \o ConcatAll(Tail(seqs))

\* the whitespace-stripped non-blank lines of all the readable files
CorpusLines ==
    ConcatAll([i \in DOMAIN dup_files |->
        IF dup_files[i].readable
        THEN SelectSeq([k \in DOMAIN SplitLines(dup_files[i].text) |->
                            Strip(SplitLines(dup_files[i].text)[k])],
                       LAMBDA l : l # <<>>)
        ELSE <<>>])

ClocLanguages == {"Python", "C", "Go"}

\* round(x, 6) keeps six decimals: the shares are counted in millionths
Million == 1000000

\* the cloc results: no summary, or the code lines of some languages
ClocStats ==
    {NoStats} \cup
    { [summary |-> TRUE, langs |-> code] :
        code \in UNION {[ls -> 0..MaxCode] : ls \in SUBSET ClocLanguages} }

RECURSIVE SumOver(_, _)
\* sum(f[x] for x in S)
SumOver(f, S) ==
    IF S = {} THEN 0
    ELSE LET x == CHOOSE y \in S : TRUE IN f[x] + SumOver(f, S \ {x})

\* round(c / total_code, 6) in millionths: the nearest one (no share of the
\* model lies half-way between two)
rounded_share(c, total_code) == (2 * c * Million + total_code) \div (2 * total_code)

\* analyzer.py:175-183: lang_code, total_code and distribution
language_distribution(langs) ==
    LET total_code == SumOver(langs, DOMAIN langs)
    IN  [lang \in {l \in DOMAIN langs : langs[l] > 0} |-> rounded_share(langs[lang], total_code)]

InitLanguages ==
    /\ cfg = DiffConfig
    /\ alf = NoInstance
    /\ log = {}
    /\ queries = 0
    /\ last_query = NoQuery
    /\ last_answer = FALSE
    /\ DiffIdle
    /\ PipelineIdle
    /\ ToolsIdle
    /\ FuncIdle
    /\ DupIdle
    /\ cloc_stats \in ClocStats
    /\ distribution = <<>>
    /\ languages_set = FALSE
    /\ lpc = "start"
    /\ CommitIdle

\* analyzer.py:162-191: summary, langs = get_cloc_stats(repo_dir) and what follows
SetLanguages ==
    /\ lpc = "start"
    /\ lpc' = "done"
    /\ IF cloc_stats.summary
       THEN /\ languages_set' = TRUE
            /\ distribution' =
                   IF SumOver(cloc_stats.langs, DOMAIN cloc_stats.langs) > 0
                   THEN language_distribution(cloc_stats.langs)
                   ELSE <<>>
       ELSE /\ languages_set' = FALSE
            /\ distribution' = <<>>
    /\ UNCHANGED <<classifierVars, diffVars, pipelineVars, funcVars, dupVars, commitVars,
                   toolVars, cloc_stats>>

NextLanguages == SetLanguages

SpecLanguages == InitLanguages /\ [][NextLanguages]_vars

\* C14: in a metadata row of a repository with total code lines > 0, the
\* language distribution holds exactly the languages with code > 0, and its
\* shares sum to 1.0.
C14_SharesSumToOne ==
    ( /\ lpc = "done"
      /\ cloc_stats.summary
      /\ SumOver(cloc_stats.langs, DOMAIN cloc_stats.langs) > 0 )
    => /\ languages_set
       /\ DOMAIN distribution = {l \in DOMAIN cloc_stats.langs : cloc_stats.langs[l] > 0}
       /\ SumOver(distribution, DOMAIN distribution) = Million

(***************************************************************************)
(* The historical token pass of analyze_repo_tokens (analyzer.py:218-238), *)
(* one commit per step.                                                    *)
(***************************************************************************)
RECURSIVE ExtractFrom(_, _, _, _)
\* analyzer.py:49-73: the loop of extract_added_lines from line i on
ExtractFrom(st, ls, i, allowed) ==
    IF i > Len(ls) THEN st.added
    ELSE ExtractFrom(extract_line(st, ls[i], allowed), ls, i + 1, allowed)

\* extract_added_lines(diff_text, allowed_files)
extract_added_lines(text, allowed) ==
    ExtractFrom([current_file |-> NoFile, current_is_binary |-> FALSE, added |-> <<>>],
                SplitLines(text), 1, allowed)

RECURSIVE join_newline(_)
\* "\n".join(added_lines)
join_newline(ls) ==
    IF ls = <<>> THEN <<>>
    ELSE IF Len(ls) = 1 THEN ls[1]
    ELSE ls[1] \o S_newline \o join_newline(Tail(ls))

\* a line of the commit listing: whether it is blank, whether git show exits
\* with 0, and the diff it prints
Commit(blank, show_ok, diff) == [blank |-> blank, show_ok |-> show_ok, diff |-> diff]

\* a .py file with one added line
OneLineDiff == <<L_diff_git_py, L_old_py, L_header_py, L_hunk, L_add_u>>

CommitUniverse ==
    { Commit(FALSE, TRUE, JoinLines(BinaryAndTextDiff)),
      Commit(FALSE, TRUE, JoinLines(OneLineDiff)),
      Commit(FALSE, TRUE, JoinLines(PngRenameDiff)),
      Commit(FALSE, FALSE, S_empty),
      Commit(TRUE, TRUE, S_empty) }

TokenAllowedFiles == ensure_loaded(AllowedFiles_init(DiffConfig))

\* the texts of a commit, appending the joined lines even when there is none
commit_texts_without_empty_test(commit, allowed) ==
    IF commit.blank THEN <<>>
    ELSE IF ~commit.show_ok THEN <<>>
    ELSE <<join_newline(extract_added_lines(commit.diff, allowed))>>

\* analyzer.py:222-234: what one commit appends to texts_all_commits
commit_texts(commit, allowed) ==
    IF commit.blank THEN <<>>
    ELSE IF ~commit.show_ok THEN <<>>
    ELSE LET added_lines == extract_added_lines(commit.diff, allowed)
         IN  IF added_lines = <<>> THEN <<>> ELSE <<join_newline(added_lines)>>

InitCommits ==
    /\ cfg = DiffConfig
    /\ alf = TokenAllowedFiles
    /\ log = AllowedFiles_init_log(DiffConfig)
    /\ queries = 0
    /\ last_query = NoQuery
    /\ last_answer = FALSE
    /\ DiffIdle
    /\ PipelineIdle
    /\ ToolsIdle
    /\ FuncIdle
    /\ DupIdle
    /\ LangIdle
    /\ commit_hashes \in SeqsUpTo(CommitUniverse, MaxCommits)
    /\ ci = 1
    /\ texts_all_commits = <<>>
    /\ handed_texts = <<>>
    /\ cpc = "loop"

commitFrame == <<classifierVars, diffVars, pipelineVars, funcVars, dupVars, langVars, toolVars>>

\* analyzer.py:221-234: one iteration of the loop over the commits
NextCommit ==
    /\ cpc = "loop"
    /\ ci <= Len(commit_hashes)
    /\ texts_all_commits' = texts_all_commits \o commit_texts(commit_hashes[ci], alf)
    /\ ci' = ci + 1
    /\ UNCHANGED <<commitFrame, commit_hashes, handed_texts, cpc>>

\* analyzer.py:236-238: count_tokens_batch(texts_all_commits)
CountAllCommits ==
    /\ cpc = "loop"
    /\ ci > Len(commit_hashes)
    /\ handed_texts' = texts_all_commits
    /\ cpc' = "done"
    /\ UNCHANGED <<commitFrame, commit_hashes, ci, texts_all_commits>>

NextCommits == NextCommit \/ CountAllCommits

SpecCommits == InitCommits /\ [][NextCommits]_vars

\* the commits of the listing whose diff was retrieved
Retrieved(c) == ~c.blank /\ c.show_ok

\* the commits among the first n whose diff was retrieved and has added lines
Contributing(n) ==
    SelectSeq(SubSeq(commit_hashes, 1, n),
              LAMBDA c : Retrieved(c) /\ extract_added_lines(c.diff, TokenAllowedFiles) # <<>>)

ExpectedTexts(n) ==
    [k \in DOMAIN Contributing(n) |->
        join_newline(extract_added_lines(Contributing(n)[k].diff, TokenAllowedFiles))]

\* C18: a commit whose diff retrieval fails adds nothing and does not stop the
\* pass: the texts handed to the token counter are, in the order of the commit
\* listing, the newline-joined added lines of each commit whose diff was
\* retrieved and whose extract_added_lines result is not empty.
C18_TextsOfRetrievedCommits ==
    /\ cpc = "loop" => texts_all_commits = ExpectedTexts(ci - 1)
    /\ cpc = "done" =>
          /\ ci = Len(commit_hashes) + 1
          /\ handed_texts = ExpectedTexts(Len(commit_hashes))

\* a commit whose git show failed stands between two commits that contribute:
\* both texts were handed over, in order
C18_Witness ==
    /\ cpc = "done"
    /\ Len(commit_hashes) = 3
    /\ ~commit_hashes[2].show_ok
    /\ handed_texts = <<join_newline(<<S_u, S_v>>), S_u>>


(***************************************************************************)
(* is_utf8_file (utils.py) and iter_code_files (metrics.py), one entry of  *)
(* the repository tree per step.                                           *)
(***************************************************************************)
\* is_utf8_file: the default of sample_size
sample_size == 4096

MaxTailBytes == 3

\* byte values: 'A', the two bytes of U+00E9, the three bytes of U+20AC, and 0xFF
ByteUniverse == {65, 195, 169, 226, 130, 172, 255}

\* the content of a file: pad bytes 'a' followed by the bytes of tail
Contents ==
    [ pad : {0, sample_size - 2, sample_size - 1, sample_size},
      tail : SeqsUpTo(ByteUniverse, MaxTailBytes) ]

ContentLength(content) == content.pad + Len(content.tail)

\* fh.read(n): the first n bytes of the content, or all of it
read(content, n) ==
    IF content.pad >= n THEN [pad |-> n, tail |-> <<>>]
    ELSE IF ContentLength(content) <= n THEN content
    ELSE [pad |-> content.pad, tail |-> SubSeq(content.tail, 1, n - content.pad)]

Continuation(b) == 128 <= b /\ b <= 191

\* the second byte a three-byte sequence with first byte b admits
SecondOfThree(b, c) ==
    IF b = 224 THEN 160 <= c /\ c <= 191
    ELSE IF b = 237 THEN 128 <= c /\ c <= 159
    ELSE Continuation(c)

\* the second byte a four-byte sequence with first byte b admits
SecondOfFour(b, c) ==
    IF b = 240 THEN 144 <= c /\ c <= 191
    ELSE IF b = 244 THEN 128 <= c /\ c <= 143
    ELSE Continuation(c)

RECURSIVE decodes_utf8(_)
\* bytes.decode("utf-8") does not raise UnicodeDecodeError on these bytes
decodes_utf8(bs) ==
    IF bs = <<>> THEN TRUE
    ELSE LET b == bs[1]
             n == Len(bs)
         IN  IF b <= 127 THEN decodes_utf8(Tail(bs))
             ELSE IF 194 <= b /\ b <= 223
             THEN /\ n >= 2
                  /\ Continuation(bs[2])
                  /\ decodes_utf8(SubSeq(bs, 3, n))
             ELSE IF 224 <= b /\ b <= 239
             THEN /\ n >= 3
                  /\ SecondOfThree(b, bs[2])
                  /\ Continuation(bs[3])
                  /\ decodes_utf8(SubSeq(bs, 4, n))
             ELSE IF 240 <= b /\ b <= 244
             THEN /\ n >= 4
                  /\ SecondOfFour(b, bs[2])
                  /\ Continuation(bs[3])
                  /\ Continuation(bs[4])
                  /\ decodes_utf8(SubSeq(bs, 5, n))
             ELSE FALSE

\* is_utf8_file(path) with the default sample_size; open() raises OSError on an
\* entry that is not readable
is_utf8_file(entry) ==
    IF ~entry.readable THEN FALSE
    ELSE LET chunk == read(entry.content, sample_size)
         IN  IF ContentLength(chunk) = 0 THEN FALSE
             ELSE decodes_utf8(chunk.tail)

NoContent == [pad |-> 0, tail |-> <<>>]

S_x_py == <<"x", ".", "p", "y">>

S_i_png == <<"i", ".", "p", "n", "g">>

\* an entry of the tree: a directory, a file that cannot be opened, or a file
\* with its content
TreeEntries ==
    { e \in [ path : {S_x_py, S_i_png}, is_file : BOOLEAN, readable : BOOLEAN,
              content : Contents ] :
        /\ ~e.is_file => (e.readable /\ e.content = NoContent)
        /\ ~e.readable => e.content = NoContent }

\* a short .py file of ASCII text
AsciiPyFile ==
    [path |-> S_x_py, is_file |-> TRUE, readable |-> TRUE, content |-> [pad |-> 1, tail |-> <<>>]]

InitScan ==
    /\ cfg = DiffConfig
    /\ alf = AllowedFiles_init(DiffConfig)
    /\ log = AllowedFiles_init_log(DiffConfig)
    /\ queries = 0
    /\ last_query = NoQuery
    /\ last_answer = FALSE
    /\ DiffIdle
    /\ PipelineIdle
    /\ FuncIdle
    /\ DupIdle
    /\ LangIdle
    /\ CommitIdle
    /\ CliIdle
    /\ tree_entries \in {<<e>> : e \in TreeEntries} \cup {<<AsciiPyFile, e>> : e \in TreeEntries}
    /\ ti = 1
    /\ yielded = <<>>
    /\ ipc = "loop"

scanFrame ==
    <<cfg, log, queries, last_query, last_answer, diffVars, pipelineVars, funcVars, dupVars,
      langVars, commitVars, cliVars>>

\* metrics.py:38-45: one iteration of the loop over repo_dir.rglob("*")
ScanEntry ==
    /\ ipc = "loop"
    /\ ti <= Len(tree_entries)
    /\ LET entry == tree_entries[ti]
       IN  IF ~entry.is_file
           THEN UNCHANGED <<alf, yielded>>
           ELSE /\ alf' = ensure_loaded(alf)
                /\ yielded' =
                       IF is_code_path(ensure_loaded(alf), entry.path) /\ is_utf8_file(entry)
                       THEN Append(yielded, ti)
                       ELSE yielded
    /\ ti' = ti + 1
    /\ UNCHANGED <<scanFrame, tree_entries, ipc>>

\* metrics.py:38: the listing is exhausted
ScanDone ==
    /\ ipc = "loop"
    /\ ti > Len(tree_entries)
    /\ ipc' = "done"
    /\ UNCHANGED <<scanFrame, alf, tree_entries, ti, yielded>>

NextScan == ScanEntry \/ ScanDone

SpecScan == InitScan /\ [][NextScan]_vars

\* a readable, non-empty file whose whole content is valid UTF-8
ValidUtf8TextFile(entry) ==
    /\ entry.is_file
    /\ entry.readable
    /\ ContentLength(entry.content) > 0
    /\ decodes_utf8(entry.content.tail)

\* C23: every non-empty file whose whole content is valid UTF-8 passes
\* is_utf8_file, whatever its length and wherever its multi-byte characters
\* lie, and iter_code_files yields every such file that the classifier accepts.
C23_ValidUtf8FilesAreKept ==
    \A i \in 1..(ti - 1) :
        ValidUtf8TextFile(tree_entries[i]) =>
            /\ is_utf8_file(tree_entries[i])
            /\ is_code_path(ensure_loaded(alf), tree_entries[i].path)
                   => \E k \in DOMAIN yielded : yielded[k] = i


(***************************************************************************)
(* The commands "metadata" and "tokens" (cli.py), one command per step.    *)
(***************************************************************************)
\* the fields of the dataclass RepoAnalyzer: the keywords its __init__ accepts
RepoAnalyzerFields == {"allowed_files", "tree_sitter", "tokenizer_provider"}

\* what a valid TOML file gives load_app_settings for the values the commands
\* read (None is "None", and <<>> for a list)
TomlSettings ==
    [ include_languages : {<<>>, <<"Python">>},
      tokenizer_id : {"None", "toml-tokenizer"},
      parallelism : {"None", "True", "False"},
      max_length : {"None", "512"} ]

\* the options of the command line, and $TOKENIZER_ID (DEFAULT_TOKENIZER_ID);
\* --include-lang is given by the parts between its commas, each stripped
CommandLines ==
    [ skip_tree_sitter : BOOLEAN,
      include_lang : {<<>>, <<"">>, <<"C">>, <<"C", "", "Go">>},
      tokenizer_id : {"None", "option-tokenizer"},
      env_tokenizer_id : {"None", "env-tokenizer"} ]

\* a or b, on a value that is None or a non-empty value
OrElse(a, b) == IF a = "None" THEN b ELSE a

\* cli.py:94-96: the non-empty parts of --include-lang, or None
cli_langs(include_lang) == SelectSeq(include_lang, LAMBDA part : part # "")

\* cli.py:24-57: the keyword arguments of the RepoAnalyzer call of _build_analyzer
build_analyzer_kwargs(skip_tree_sitter, tokenizer_id, parallelism, max_length, cloc_languages) ==
    [ allowed_files |-> "AllowedFiles",
      tree_sitter |-> IF skip_tree_sitter THEN "None" ELSE "TreeSitterManager",
      tokenizer_provider |->
          IF tokenizer_id = "None" THEN <<>>
          ELSE <<tokenizer_id, parallelism, max_length>>,
      cloc_languages |-> cloc_languages ]

\* the __init__ of a dataclass raises TypeError on a keyword that is no field
RaisesTypeError(kwargs) == ~(DOMAIN kwargs \subseteq RepoAnalyzerFields)

InitCli ==
    /\ cfg = DiffConfig
    /\ alf = NoInstance
    /\ log = {}
    /\ queries = 0
    /\ last_query = NoQuery
    /\ last_answer = FALSE
    /\ DiffIdle
    /\ PipelineIdle
    /\ FuncIdle
    /\ DupIdle
    /\ LangIdle
    /\ CommitIdle
    /\ ScanIdle
    /\ command \in {"metadata", "tokens"}
    /\ options \in CommandLines
    /\ settings \in TomlSettings
    /\ analyzer_kwargs = <<>>
    /\ pipeline_called = "none"
    /\ clipc = "start"

cliFrame ==
    <<classifierVars, diffVars, pipelineVars, funcVars, dupVars, langVars, commitVars, scanVars>>

\* cli.py:75-107: the command metadata
metadata ==
    /\ clipc = "start"
    /\ command = "metadata"
    /\ LET langs == cli_langs(options.include_lang)
           cloc_languages == IF langs = <<>> THEN settings.include_languages ELSE langs
           kwargs == build_analyzer_kwargs(options.skip_tree_sitter, "None", "None", "None",
                                           cloc_languages)
       IN  /\ analyzer_kwargs' = kwargs
           /\ IF RaisesTypeError(kwargs)
              THEN /\ clipc' = "raised"
                   /\ pipeline_called' = "none"
              ELSE /\ clipc' = "returned"
                   /\ pipeline_called' = "run_metadata_pipeline"
    /\ UNCHANGED <<cliFrame, command, options, settings>>

\* cli.py:110-137: the command tokens
tokens ==
    /\ clipc = "start"
    /\ command = "tokens"
    /\ LET effective_tokenizer_id ==
               OrElse(options.tokenizer_id,
                      OrElse(settings.tokenizer_id, options.env_tokenizer_id))
           kwargs == build_analyzer_kwargs(TRUE, effective_tokenizer_id, settings.parallelism,
                                           settings.max_length, settings.include_languages)
       IN  /\ analyzer_kwargs' = kwargs
           /\ IF RaisesTypeError(kwargs)
              THEN /\ clipc' = "raised"
                   /\ pipeline_called' = "none"
              ELSE /\ clipc' = "returned"
                   /\ pipeline_called' = "run_tokens_pipeline"
    /\ UNCHANGED <<cliFrame, command, options, settings>>

NextCli == metadata \/ tokens

SpecCli == InitCli /\ [][NextCli]_vars

\* C24: with a valid configuration, the commands metadata and tokens give
\* RepoAnalyzer only keywords that are fields of it, no exception ends the
\* command, and the command calls run_metadata_pipeline, respectively
\* run_tokens_pipeline.
C24_CommandsReachThePipeline ==
    clipc \in {"returned", "raised"} =>
        /\ DOMAIN analyzer_kwargs \subseteq RepoAnalyzerFields
        /\ clipc = "returned"
        /\ pipeline_called = IF command = "metadata" THEN "run_metadata_pipeline"
                             ELSE "run_tokens_pipeline"

====
